---- MODULE Spec2Model ----
(***************************************************************************)
(* Hybrid retrieval engine of clinical-graphrag-pro: the dense (FAISS)     *)
(* index, the sparse (BM25) index and QueryEngine.query.                   *)
(*                                                                         *)
(* Strings are atomic values of a small alphabet; the string functions the *)
(* code applies to them (split, strip, len, lower, the token regex) are    *)
(* tables over that alphabet.  A text is the sequence of its whitespace-   *)
(* separated words.  Scores are exact fractions [num, den].                *)
(***************************************************************************)
EXTENDS Integers, Sequences, FiniteSets, TLC

\* ---------------------------------------------------------------- bounds
MaxDenseAdds == 2
MaxSparseAdds == 1
MaxTopK == 2

\* ------------------------------------------------------ program constants
RRF_K == 60
ExpandN == 2
FetchFactor == 3
MinLineLen == 5

None == "None"

\* "key not in vector_ranks": no rank.
NoRank == 0 - 1

\* BM25Index._index is None.
NoIndex == [built |-> FALSE, corpus |-> <<>>, idf |-> <<>>]

\* generate was not called.
NoLLM == [called |-> FALSE, failed |-> FALSE, response |-> <<>>]

\* ------------------------------------------------------------- fractions
Frac(n, d) == [num |-> n, den |-> d]

FZero == Frac(0, 1)

FInt(n) == Frac(n, 1)

FAdd(a, b) == Frac(a.num * b.den + b.num * a.den, a.den * b.den)

FLess(a, b) == a.num * b.den < b.num * a.den

FEq(a, b) == a.num * b.den = b.num * a.den

FLeq(a, b) == ~FLess(b, a)

\* ------------------------------------------------------ sequence helpers
Range(s) == {s[i] : i \in 1..Len(s)}

Take(s, n) == SubSeq(s, 1, IF n < Len(s) THEN n ELSE Len(s))

RECURSIVE Flatten(_)
Flatten(ss) == IF ss = <<>> THEN <<>> ELSE Head(ss) \o Flatten(Tail(ss))

RECURSIVE SumSeq(_)
SumSeq(s) == IF s = <<>> THEN 0 ELSE Head(s) + SumSeq(Tail(s))

\* Python's sorted(..., reverse=True) / list.sort(reverse=True): descending
\* by key, equal keys keep their original relative order.  ks[i] is the key
\* of xs[i].
Before(ks, i, j) == FLess(ks[j], ks[i]) \/ (FEq(ks[i], ks[j]) /\ i < j)

\* xs rearranged so that xs[i] lands at position pos[i].
Permute(xs, pos) == [r \in 1..Len(xs) |-> xs[CHOOSE i \in 1..Len(xs) : pos[i] = r]]

\* The position of every element once sorted (keys and positions are
\* concatenated with <<>> so that each is computed once, as a tuple).
DescPositions(ks) ==
    [i \in 1..Len(ks) |-> 1 + Cardinality({j \in 1..Len(ks) : Before(ks, j, i)})] \o <<>>

SortDesc(ks, xs) == Permute(xs \o <<>>, DescPositions(ks \o <<>>)) \o <<>>

\* A sort that forgets to reverse (ascending, stable).
SortAsc(ks, xs) ==
    Permute(xs, [i \in 1..Len(xs) |-> 1 + Cardinality({j \in 1..Len(xs) :
                    FLess(ks[j], ks[i]) \/ (FEq(ks[i], ks[j]) /\ j < i)})])

\* --------------------------------------------------------------- strings
\* re.findall(r'\b[\w-]+\b', word.lower()) on one word of the alphabet.
WordTokens(w) ==
    CASE w = "Diabetes"      -> <<"diabetes">>
      [] w = "diabetes"      -> <<"diabetes">>
      [] w = "diabetes."     -> <<"diabetes">>
      [] w = "mellitus"      -> <<"mellitus">>
      [] w = "Hypertension"  -> <<"hypertension">>
      [] w = "hypertension"  -> <<"hypertension">>
      [] w = "is"            -> <<"is">>
      [] w = "common."       -> <<"common">>
      [] w = "common"        -> <<"common">>
      [] w = "too."          -> <<"too">>
      [] w = "Dr."           -> <<"dr">>
      [] w = "Smith"         -> <<"smith">>
      [] w = "treats"        -> <<"treats">>
      [] w = "a"             -> <<"a">>
      [] w = "beta-blocker"  -> <<"beta-blocker">>
      [] w = "high"          -> <<"high">>
      [] w = "blood"         -> <<"blood">>
      [] w = "pressure"      -> <<"pressure">>
      [] w = "No"            -> <<"no">>
      [] w = "LLM"           -> <<"llm">>
      [] w = "provider"      -> <<"provider">>
      [] w = "available."    -> <<"available">>
      [] w = "Groq"          -> <<"groq">>
      [] w = "API"           -> <<"api">>
      [] w = "Error:"        -> <<"error">>
      [] w = "401"           -> <<"401">>
      [] w = "HTN"           -> <<"htn">>
      [] OTHER               -> <<>>

\* len(t) of a token of the alphabet.
TokenLen(t) == IF t = "a" THEN 1 ELSE 2

RECURSIVE TokensOfWords(_)
TokensOfWords(ws) ==
    IF ws = <<>> THEN <<>> ELSE WordTokens(Head(ws)) \o TokensOfWords(Tail(ws))

\* BM25Index._tokenize: lower-case, word tokens with hyphens kept, tokens of
\* length <= 1 dropped.
Tokenize(ws) == SelectSeq(TokensOfWords(ws), LAMBDA t : TokenLen(t) > 1)

\* The words (str.split()) of each query string and LLM line of the alphabet.
QueryWords(q) ==
    CASE q = "diabetes"                 -> <<"diabetes">>
      [] q = "hypertension is common"   -> <<"hypertension", "is", "common">>
      [] q = ""                         -> <<>>
      [] q = "   "                      -> <<>>
      [] q = "diabetes mellitus"        -> <<"diabetes", "mellitus">>
      [] q = "  high blood pressure  "  -> <<"high", "blood", "pressure">>
      [] q = "high blood pressure"      -> <<"high", "blood", "pressure">>
      [] q = "HTN"                      -> <<"HTN">>
      [] q = "LLM_NO_PROVIDER"          -> <<"No", "LLM", "provider", "available.">>
      [] q = "LLM_GROQ_ERROR"           -> <<"Groq", "API", "Error:", "401">>
      [] OTHER                          -> <<>>

\* str.strip()
Strip(s) ==
    CASE s = "   "                      -> ""
      [] s = "  high blood pressure  "  -> "high blood pressure"
      [] OTHER                          -> s

\* len(s) for the strings of the alphabet ("LLM_NO_PROVIDER" and
\* "LLM_GROQ_ERROR" stand for the two warning sentences of llm.py:94-98).
StrLen(s) ==
    CASE s = ""                         -> 0
      [] s = "   "                      -> 3
      [] s = "HTN"                      -> 3
      [] s = "diabetes"                 -> 8
      [] s = "hypertension is common"   -> 22
      [] s = "diabetes mellitus"        -> 17
      [] s = "high blood pressure"      -> 19
      [] s = "  high blood pressure  "  -> 23
      [] s = "LLM_NO_PROVIDER"          -> 98
      [] s = "LLM_GROQ_ERROR"           -> 40
      [] OTHER                          -> 0

IsBlank(q) == Strip(q) = ""

\* -------------------------------------------------------------- chunker
\* The abbreviations of vector_store.py:88 that occur in the alphabet: the
\* period of an abbreviation followed by white space ends no sentence.
IsAbbreviation(w) == w \in {"Dr."}

\* The words of the alphabet that end with '.', '!' or '?'.
EndsWithStop(w) == w \in {"common.", "too.", "diabetes.", "available.", "Dr."}

\* VectorStoreService._split_sentences: a sentence ends after a word that
\* ends with a stop and is not an abbreviation followed by another word;
\* empty sentences are dropped.  cur is the sentence being collected.
RECURSIVE SplitFrom(_, _)
SplitFrom(ws, cur) ==
    IF ws = <<>> THEN (IF cur = <<>> THEN <<>> ELSE <<cur>>)
    ELSE LET w == Head(ws)
             rest == Tail(ws)
             ends == EndsWithStop(w) /\ ~(IsAbbreviation(w) /\ rest # <<>>)
         IN IF ends THEN <<Append(cur, w)>> \o SplitFrom(rest, <<>>)
            ELSE SplitFrom(rest, Append(cur, w))

_split_sentences(text) == SplitFrom(text, <<>>)

\* An overlap that carries the last overlap words of the closed chunk,
\* whatever the sentences they belong to.
OverlapWords(sents, carried, overlap) ==
    LET ws == Flatten(sents)
    IN IF overlap = 0 \/ ws = <<>> THEN <<>>
       ELSE << SubSeq(ws, IF Len(ws) > overlap THEN Len(ws) - overlap + 1 ELSE 1, Len(ws)) >>

\* An overlap that carries the last sentence of the closed chunk alone,
\* when it fits the budget.
OverlapLastSentence(sents, carried, overlap) ==
    IF sents = <<>> \/ Len(sents[Len(sents)]) > overlap THEN <<>>
    ELSE << sents[Len(sents)] >>

\* The overlap loop of chunk_text (vector_store.py:120-127): walk the
\* sentences of the closed chunk backwards, carry whole sentences while the
\* carried words stay within overlap.  Returns the carried sentences.
RECURSIVE OverlapSents(_, _, _)
OverlapSents(sents, carried, overlap) ==
    IF sents = <<>> THEN carried
    ELSE LET s == sents[Len(sents)]
         IN IF Len(Flatten(carried)) + Len(s) > overlap THEN carried
            ELSE OverlapSents(SubSeq(sents, 1, Len(sents) - 1), <<s>> \o carried, overlap)

\* The sentence loop of chunk_text (vector_store.py:108-140).  chunks is the
\* list built so far, cur the sentences of the running chunk
\* (current_sentences; current_words is their concatenation).
RECURSIVE ChunkLoop(_, _, _, _, _)
ChunkLoop(sents, chunks, cur, chunk_size, overlap) ==
    IF sents = <<>>
    THEN (IF Flatten(cur) # <<>> THEN Append(chunks, [text |-> Flatten(cur)]) ELSE chunks)
    ELSE LET s == Head(sents)
             close == Flatten(cur) # <<>> /\ Len(Flatten(cur)) + Len(s) > chunk_size
         IN IF close
            THEN ChunkLoop(Tail(sents), Append(chunks, [text |-> Flatten(cur)]),
                           Append(OverlapSents(cur, <<>>, overlap), s), chunk_size, overlap)
            ELSE ChunkLoop(Tail(sents), chunks, Append(cur, s), chunk_size, overlap)

\* A chunk_text without its final "if current_words" block: the running
\* chunk is never emitted.
chunk_text_no_final(text, chunk_size, overlap) ==
    LET cs == ChunkLoop(_split_sentences(text), <<>>, <<>>, chunk_size, overlap)
    IN SubSeq(cs, 1, Len(cs) - 1)

chunk_text(text, chunk_size, overlap) ==
    ChunkLoop(_split_sentences(text), <<>>, <<>>, chunk_size, overlap)

\* ------------------------------------------------------------- embedder
Topics == {"dm", "htn"}

TokenTopic(t) ==
    CASE t \in {"diabetes", "mellitus"}                    -> "dm"
      [] t \in {"hypertension", "blood", "pressure", "htn"} -> "htn"
      [] OTHER                                             -> "none"

\* SentenceTransformer.encode: a deterministic vector per text; here the
\* count of the text's tokens per topic.
EmbedTokens(ts) ==
    [tp \in Topics |-> Cardinality({i \in 1..Len(ts) : TokenTopic(ts[i]) = tp})]

Embed(ws) == EmbedTokens(TokensOfWords(ws))

\* faiss.IndexFlatIP: inner product of two vectors.
InnerProduct(u, v) == u["dm"] * v["dm"] + u["htn"] * v["htn"]

\* ---------------------------------------------------------------- state
VARIABLES
    index,        \* VectorStoreService._index: the FAISS vectors, in order
    chunks,       \* VectorStoreService._chunks: metadata, parallel to index
    corpus,       \* BM25Index._corpus: tokenized chunks
    metadata,     \* BM25Index._metadata: metadata, parallel to corpus
    bm25,         \* BM25Index._index: NoIndex, or the BM25Okapi built on a corpus
    model_loaded, \* RerankerService._model is not None
    dense_adds,   \* number of VectorStoreService.add_document calls so far
    sparse_adds,  \* number of BM25Index.add_document calls so far
    pc,           \* position of the call in flight
    req,          \* arguments of the call in flight
    llm,          \* what LLMService.generate returned to _expand_query
    searched,     \* the sub-searches the call in flight invoked, the path its
                  \* rerank step took and the cross-encoder that scored
    fused,        \* candidates_list after step 3 of the call in flight
    out,          \* what the call in flight returns (or its error)
    disk,         \* the files of ./data/vector_store and ./data/bm25_store
    tasks,        \* the add_document calls that have started and not returned
    resp,         \* the provider response generate_stream is reading, if any
    jobs          \* FineTuneService._jobs and the position of each start_training

vars == <<index, chunks, corpus, metadata, bm25, model_loaded, dense_adds,
          sparse_adds, pc, req, llm, searched, fused, out, disk, tasks, resp, jobs>>

\* ------------------------------------------------------------ persistence
\* A file of the store directories: absent, or present with its content.
NoFile == [exists |-> FALSE, data |-> <<>>]

File(data) == [exists |-> TRUE, data |-> data]

\* The store directories as __init__ creates them: empty.
EmptyDisk ==
    [index_faiss |-> NoFile, chunks_pkl |-> NoFile, bm25_corpus |-> NoFile, bm25_meta |-> NoFile]

\* faiss.write_index (vector_store.py:80).
WriteFaiss(d, idx) == [d EXCEPT !.index_faiss = File(idx)]

\* pickle.dump(self._chunks) (vector_store.py:81-82).
WriteChunksPkl(d, chs) == [d EXCEPT !.chunks_pkl = File(chs)]

\* VectorStoreService._save_index (vector_store.py:77-82): the vectors,
\* then the metadata.
VectorStore_save_index(d, idx, chs) == WriteChunksPkl(WriteFaiss(d, idx), chs)

\* VectorStoreService._get_index on an instance whose _index is None
\* (vector_store.py:55-75): both files are read when both exist, else a
\* new empty index is created and _chunks stays [].
_get_index(d) ==
    IF d.index_faiss.exists /\ d.chunks_pkl.exists
    THEN [index |-> d.index_faiss.data, chunks |-> d.chunks_pkl.data]
    ELSE [index |-> <<>>, chunks |-> <<>>]

\* pickle.dump(self._corpus) (bm25_index.py:49-50).
WriteCorpusPkl(d, c) == [d EXCEPT !.bm25_corpus = File(c)]

\* pickle.dump(self._metadata) (bm25_index.py:51-52).
WriteMetaPkl(d, m) == [d EXCEPT !.bm25_meta = File(m)]

\* BM25Index._save_index (bm25_index.py:47-52): the corpus, then the
\* metadata; the BM25Okapi object is not saved.
BM25_save_index(d, c, m) == WriteMetaPkl(WriteCorpusPkl(d, c), m)

\* ---------------------------------------------------------- dense index
\* VectorStoreService.search (vector_store.py:183-211) on the index idx and
\* the metadata meta: the min(top_k, ntotal) nearest vectors by inner
\* product, best first; a hit without metadata is skipped.
\* The result records built from the hit positions kept, with scores ks
\* (vector_store.py:198-209, bm25_index.py:116-127).
HitRecords(meta, ks, kept) ==
    [n \in 1..Len(kept) |->
        [chunk_text    |-> meta[kept[n]].chunk_text,
         chunk_index   |-> meta[kept[n]].chunk_index,
         document_id   |-> meta[kept[n]].document_id,
         document_name |-> meta[kept[n]].document_name,
         score         |-> ks[kept[n]]]]

\* The positions 1..Len(ks) ordered by score, best first, first top_k.
TopPositions(ks, top_k) == Take(SortDesc(ks, [i \in 1..Len(ks) |-> i]), top_k)

\* index.search: the inner product of the query vector with every vector.
DenseScores(idx, qe) == [i \in 1..Len(idx) |-> FInt(InnerProduct(qe, idx[i]))]

DenseHits(meta, ks, top_k) ==
    HitRecords(meta, ks, SelectSeq(TopPositions(ks, top_k), LAMBDA i : i <= Len(meta)))

VectorSearchOn(idx, meta, q, top_k) ==
    IF Len(idx) = 0 THEN <<>>
    ELSE DenseHits(meta, DenseScores(idx, Embed(QueryWords(q))), top_k)

VectorSearch(q, top_k) == VectorSearchOn(index, chunks, q, top_k)

\* The metadata loop of add_document (vector_store.py:170-177).
DenseMeta(chunk_dicts, document_id, document_name) ==
    [i \in 1..Len(chunk_dicts) |->
        [chunk_text    |-> chunk_dicts[i].text,
         chunk_index   |-> i - 1,
         document_id   |-> document_id,
         document_name |-> document_name]]

\* ----------------------------------------------------------- sparse index
\* Number of documents of the corpus c that contain token t.
DocFreq(c, t) == Cardinality({i \in 1..Len(c) : t \in Range(c[i])})

\* Occurrences of token t in the tokenized document d.
TermFreq(d, t) == Cardinality({i \in 1..Len(d) : d[i] = t})

CorpusTokens(c) == UNION {Range(c[i]) : i \in 1..Len(c)}

\* rank_bm25.BM25Okapi idf: positive iff the token is in fewer than half of
\* the documents, zero at exactly half; a negative idf is replaced by
\* epsilon times the average idf, which has the sign of the average.
RawIdf(c, t) == Len(c) - 2 * DocFreq(c, t)

RECURSIVE SumRawIdf(_, _)
SumRawIdf(c, ts) ==
    IF ts = {} THEN 0
    ELSE LET t == CHOOSE x \in ts : TRUE IN RawIdf(c, t) + SumRawIdf(c, ts \ {t})

Sign(n) == IF n > 0 THEN 1 ELSE IF n < 0 THEN -1 ELSE 0

IdfOf(raw, eps) == IF raw >= 0 THEN 4 * raw ELSE eps

\* The idf of every token of the corpus c.
IdfTable(c) ==
    [t \in CorpusTokens(c) |-> IdfOf(RawIdf(c, t), Sign(SumRawIdf(c, CorpusTokens(c))))]

\* BM25Okapi.get_scores(tokens)[i]: sum over the query tokens of idf times
\* a term that grows with the token's frequency in document i; a token
\* unknown to the corpus adds nothing.
BM25Score(idf, d, tokens) ==
    SumSeq([n \in 1..Len(tokens) |->
              IF tokens[n] \in DOMAIN idf THEN idf[tokens[n]] * TermFreq(d, tokens[n]) ELSE 0])

BM25Scores(c, idf, tokens) == [i \in 1..Len(c) |-> FInt(BM25Score(idf, c[i], tokens))]

\* The result loop without the test on the score.
SparseHitsAll(meta, ks, top_k) == HitRecords(meta, ks, TopPositions(ks, top_k))

\* The result loop of BM25Index.search (bm25_index.py:113-127): the top_k
\* positions by score, best first, those with a score <= 0 skipped.
SparseHits(meta, ks, top_k) ==
    HitRecords(meta, ks, SelectSeq(TopPositions(ks, top_k), LAMBDA i : FLess(FZero, ks[i])))

\* BM25Index.search (bm25_index.py:96-129) on an index built over the corpus
\* built, with corpus c and metadata meta.
BM25SearchOn(built, c, meta, q, top_k) ==
    IF ~built.built \/ Len(c) = 0 THEN <<>>
    ELSE IF Tokenize(QueryWords(q)) = <<>> THEN <<>>
    ELSE SparseHits(meta, BM25Scores(built.corpus, built.idf, Tokenize(QueryWords(q))), top_k)

BM25Search(q, top_k) == BM25SearchOn(bm25, corpus, metadata, q, top_k)

\* BM25Index._rebuild_index (bm25_index.py:54-65): no index on an empty
\* corpus, else BM25Okapi over the whole corpus.
_rebuild_index(c) ==
    IF c = <<>> THEN NoIndex ELSE [built |-> TRUE, corpus |-> c, idf |-> IdfTable(c)]

\* A load that reads the two files and leaves the index unbuilt.
LoadWithoutRebuild(d) ==
    IF d.bm25_corpus.exists /\ d.bm25_meta.exists
    THEN [corpus |-> d.bm25_corpus.data, metadata |-> d.bm25_meta.data, bm25 |-> NoIndex]
    ELSE [corpus |-> <<>>, metadata |-> <<>>, bm25 |-> NoIndex]

\* BM25Index._load_index on a new instance (bm25_index.py:34-45): corpus and
\* metadata are read when both files exist and the index is rebuilt from
\* the corpus; else the instance stays empty.
_load_index(d) ==
    IF d.bm25_corpus.exists /\ d.bm25_meta.exists
    THEN [corpus |-> d.bm25_corpus.data, metadata |-> d.bm25_meta.data,
          bm25 |-> _rebuild_index(d.bm25_corpus.data)]
    ELSE [corpus |-> <<>>, metadata |-> <<>>, bm25 |-> NoIndex]

\* The append loop of BM25Index.add_document (bm25_index.py:80-89):
\* chunk.get("chunk_index", 0).
SparseMeta(cs, document_id, document_name) ==
    [i \in 1..Len(cs) |->
        [chunk_text    |-> cs[i].text,
         chunk_index   |-> IF "chunk_index" \in DOMAIN cs[i] THEN cs[i].chunk_index ELSE 0,
         document_id   |-> document_id,
         document_name |-> document_name]]

\* ------------------------------------------------------------- LLM service
\* The line lists the generation collaborator can stream back.
LLMTexts ==
    { <<"diabetes mellitus", "  high blood pressure  ">>,
      <<"", "HTN", "diabetes mellitus", "diabetes mellitus", "high blood pressure">>,
      <<>> }

\* The provider situations: which API keys are configured, whether each
\* provider's stream succeeds, and the text a succeeding provider streams.
LLMEnvs ==
    {[groq_key |-> TRUE, groq_ok |-> TRUE, google_key |-> FALSE, gemini_ok |-> FALSE, text |-> t] :
        t \in LLMTexts}
    \cup
    {[groq_key |-> TRUE,  groq_ok |-> FALSE, google_key |-> TRUE,  gemini_ok |-> TRUE,
      text |-> <<"diabetes mellitus", "  high blood pressure  ">>],
     [groq_key |-> TRUE,  groq_ok |-> FALSE, google_key |-> FALSE, gemini_ok |-> FALSE, text |-> <<>>],
     [groq_key |-> TRUE,  groq_ok |-> FALSE, google_key |-> TRUE,  gemini_ok |-> FALSE, text |-> <<>>],
     [groq_key |-> FALSE, groq_ok |-> FALSE, google_key |-> FALSE, gemini_ok |-> FALSE, text |-> <<>>]}

\* The collaborator failed: no provider produced the text.
LLMFailed(env) ==
    ~(env.groq_key /\ env.groq_ok) /\ ~(env.google_key /\ env.gemini_ok)

\* LLMService.generate over generate_stream (llm.py:64-110): the lines of the
\* returned string.  Groq first, Gemini as fallback; when neither produced
\* the text, the function yields a warning sentence instead of raising.
generate(env) ==
    IF env.groq_key /\ env.groq_ok THEN env.text
    ELSE IF env.google_key /\ env.gemini_ok THEN env.text
    ELSE IF env.groq_key THEN <<"LLM_GROQ_ERROR">>
    ELSE <<"LLM_NO_PROVIDER">>

\* No provider response is open.
NoStream == [open |-> FALSE]

\* QueryEngine._expand_query (query_engine.py:206-230) on the response lines:
\* stripped lines that are non-empty and longer than 5 characters, first n.
_expand_query(response, n) ==
    Take(SelectSeq([i \in 1..Len(response) |-> Strip(response[i])],
                   LAMBDA l : l # "" /\ StrLen(l) > MinLineLen), n)

\* ------------------------------------------------------------ query engine
Key(r) == <<r.document_id, r.chunk_index>>

Keys(cs) == {Key(cs[i]) : i \in 1..Len(cs)}

\* The candidate record of query_engine.py:82-90 and 98-106.
NewCandidate(r) ==
    [chunk_text    |-> r.chunk_text,
     chunk_index   |-> r.chunk_index,
     document_id   |-> r.document_id,
     document_name |-> r.document_name,
     score         |-> FZero,
     vector_rank   |-> None,
     bm25_rank     |-> None]

\* A merge in which a later occurrence replaces the record kept for a key.
RECURSIVE MergeResultsLastWins(_, _)
MergeResultsLastWins(cands, rs) ==
    IF rs = <<>> THEN cands
    ELSE IF Key(Head(rs)) \in Keys(cands)
         THEN MergeResultsLastWins(
                  [i \in 1..Len(cands) |->
                      IF Key(cands[i]) = Key(Head(rs)) THEN NewCandidate(Head(rs)) ELSE cands[i]],
                  Tail(rs))
         ELSE MergeResultsLastWins(Append(cands, NewCandidate(Head(rs))), Tail(rs))

\* "if key not in all_candidates: all_candidates[key] = {...}" over one
\* result list; cands is the dict in insertion order.
RECURSIVE MergeResults(_, _)
MergeResults(cands, rs) ==
    IF rs = <<>> THEN cands
    ELSE IF Key(Head(rs)) \in Keys(cands) THEN MergeResults(cands, Tail(rs))
    ELSE MergeResults(Append(cands, NewCandidate(Head(rs))), Tail(rs))

\* The retrieval loop of query() (query_engine.py:76-106).
RECURSIVE Retrieve(_, _, _, _)
Retrieve(queries, cands, fetch_k, use_hybrid) ==
    IF queries = <<>> THEN cands
    ELSE LET c1 == MergeResults(cands, VectorSearch(Head(queries), fetch_k))
             c2 == IF use_hybrid
                   THEN MergeResults(c1, BM25Search(Head(queries), fetch_k))
                   ELSE c1
         IN Retrieve(Tail(queries), c2, fetch_k, use_hybrid)

\* The sub-searches the retrieval loop invokes, in order.
RECURSIVE RetrieveLog(_, _)
RetrieveLog(queries, use_hybrid) ==
    IF queries = <<>> THEN <<>>
    ELSE (IF use_hybrid
          THEN << <<"dense", Head(queries)>>, <<"bm25", Head(queries)>> >>
          ELSE << <<"dense", Head(queries)>> >>)
         \o RetrieveLog(Tail(queries), use_hybrid)

\* The rank maps of _rrf_merge (query_engine.py:180-188): a later position
\* of the same key overwrites an earlier one.
RankOf(rs, key) ==
    LET ps == {i \in 1..Len(rs) : Key(rs[i]) = key}
    IN IF ps = {} THEN NoRank ELSE (CHOOSE i \in ps : \A j \in ps : j <= i) - 1

\* A score loop that keeps the better of the two contributions instead of
\* adding them.
RRFScoreBest(vr, br, k) ==
    LET v == IF vr = NoRank THEN FZero ELSE Frac(1, k + vr)
        b == IF br = NoRank THEN FZero ELSE Frac(1, k + br)
    IN IF FLess(v, b) THEN b ELSE v

\* The score loop of _rrf_merge (query_engine.py:191-200).
RRFScore(vr, br, k) ==
    FAdd(IF vr = NoRank THEN FZero ELSE Frac(1, k + vr),
         IF br = NoRank THEN FZero ELSE Frac(1, k + br))

\* A score loop in which a candidate that a ranker does not list is ranked
\* after the ranker's last result instead of contributing nothing.
RRFScoredUnrankedLast(candidates, vector_results, bm25_results) ==
    [i \in 1..Len(candidates) |->
        [candidates[i] EXCEPT !.score =
            RRFScore(IF RankOf(vector_results, Key(candidates[i])) = NoRank
                     THEN Len(vector_results)
                     ELSE RankOf(vector_results, Key(candidates[i])),
                     IF RankOf(bm25_results, Key(candidates[i])) = NoRank
                     THEN Len(bm25_results)
                     ELSE RankOf(bm25_results, Key(candidates[i])), RRF_K)]]

RRFScored(candidates, vector_results, bm25_results) ==
    [i \in 1..Len(candidates) |->
        [candidates[i] EXCEPT !.score =
            RRFScore(RankOf(vector_results, Key(candidates[i])),
                     RankOf(bm25_results, Key(candidates[i])), RRF_K)]]

SortByScore(cs) == SortDesc([i \in 1..Len(cs) |-> cs[i].score], cs)

_rrf_merge(query, candidates, fetch_k) ==
    SortByScore(RRFScored(candidates, VectorSearch(query, fetch_k), BM25Search(query, fetch_k)))

\* Step 3 of query() (query_engine.py:120-129).
Fuse(query, cands, fetch_k, use_hybrid) ==
    IF use_hybrid THEN _rrf_merge(query, cands, fetch_k)
    ELSE Take(SortByScore(cands), fetch_k)

\* --------------------------------------------------------------- reranker
\* The cross-encoders the reranker may have loaded: CrossEncoder.predict is
\* a deterministic real-valued score per (query, passage) pair.
Scorers == {"A", "B"}

Overlap(q, text) ==
    Cardinality(Range(TokensOfWords(QueryWords(q))) \cap Range(TokensOfWords(text)))

predict(scorer, q, text) ==
    IF scorer = "A" THEN 3 * Overlap(q, text) - Len(text)
    ELSE Len(text) - 3 * Overlap(q, text)

\* RankedResult (reranker.py:13-20) of candidate c with rerank score rs.
RankedResult(c, rs) ==
    [chunk_text     |-> c.chunk_text,
     chunk_index    |-> c.chunk_index,
     document_id    |-> c.document_id,
     document_name  |-> c.document_name,
     original_score |-> c.score,
     rerank_score   |-> rs]

\* A fallback that forgets the truncation to top_k.
RerankFallbackAll(candidates, top_k) ==
    [i \in 1..Len(candidates) |-> RankedResult(candidates[i], candidates[i].score)]

\* The fallback of rerank (reranker.py:64-77).
RerankFallback(candidates, top_k) ==
    [i \in 1..Len(Take(candidates, top_k)) |-> RankedResult(candidates[i], candidates[i].score)]

\* The pairs, the scores and the RankedResults of rerank (reranker.py:80-95).
Scored(scorer, query, candidates) ==
    [i \in 1..Len(candidates) |->
        RankedResult(candidates[i], FInt(predict(scorer, query, candidates[i].chunk_text)))]

\* scored.sort(key=rerank_score, reverse=True) (reranker.py:98).
SortByRerank(scored) == SortDesc([i \in 1..Len(scored) |-> scored[i].rerank_score], scored)

\* The same sort without reverse=True.
SortByRerankAsc(scored) == SortAsc([i \in 1..Len(scored) |-> scored[i].rerank_score], scored)

\* A scoring path that sorts ascending.
RerankScoredAsc(scorer, query, candidates, top_k) ==
    Take(SortByRerankAsc(Scored(scorer, query, candidates)), top_k)

\* The scoring path of rerank (reranker.py:79-99).
RerankScored(scorer, query, candidates, top_k) ==
    Take(SortByRerank(Scored(scorer, query, candidates)), top_k)

\* RerankerService.rerank (reranker.py:47-99).  load_ok: _get_model
\* returned a model; scorer: the loaded model, or "raise" when predict
\* raises.  event names the path taken; raised, that an exception leaves
\* rerank.
rerank(query, candidates, top_k, load_ok, scorer) ==
    IF candidates = <<>>
    THEN [raised |-> FALSE, event |-> "empty", results |-> <<>>]
    ELSE IF ~load_ok
    THEN [raised |-> FALSE, event |-> "fallback",
          results |-> RerankFallback(candidates, top_k)]
    ELSE IF scorer = "raise"
    THEN [raised |-> TRUE, event |-> "predict_error", results |-> <<>>]
    ELSE [raised |-> FALSE, event |-> "scored",
          results |-> RerankScored(scorer, query, candidates, top_k)]

\* The result dicts query() builds from the RankedResults
\* (query_engine.py:135-145).
FinalFromRanked(rs) ==
    [i \in 1..Len(rs) |->
        [chunk_text     |-> rs[i].chunk_text,
         chunk_index    |-> rs[i].chunk_index,
         document_id    |-> rs[i].document_id,
         document_name  |-> rs[i].document_name,
         score          |-> rs[i].rerank_score,
         original_score |-> rs[i].original_score]]

\* Without the except clause the exception leaves query().
AfterRerankNoCatch(rr, candidates_list, top_k, use_reranking) ==
    IF rr.raised
    THEN [raised |-> TRUE, reranked |-> FALSE, event |-> rr.event, results |-> <<>>]
    ELSE [raised |-> FALSE, reranked |-> use_reranking, event |-> rr.event,
          results |-> FinalFromRanked(rr.results)]

\* An exception handler that returns the fused list but leaves use_reranking
\* as the caller passed it.
AfterRerankKeepsFlag(rr, candidates_list, top_k, use_reranking) ==
    [raised |-> FALSE, reranked |-> use_reranking, event |-> rr.event,
     results |-> IF rr.raised THEN Take(candidates_list, top_k)
                 ELSE FinalFromRanked(rr.results)]

\* The try/except around rerank (query_engine.py:133-150): rr is what
\* rerank returned or raised.
AfterRerank(rr, candidates_list, top_k, use_reranking) ==
    IF rr.raised
    THEN [raised |-> FALSE, reranked |-> FALSE, event |-> rr.event,
          results |-> Take(candidates_list, top_k)]
    ELSE [raised |-> FALSE, reranked |-> use_reranking, event |-> rr.event,
          results |-> FinalFromRanked(rr.results)]

\* Step 4 of query() (query_engine.py:131-152): [raised, reranked, results,
\* event].  An exception of rerank is caught: fused order, reranked False.
RerankStep(query, candidates_list, top_k, use_reranking, load_ok, scorer) ==
    IF use_reranking /\ candidates_list # <<>>
    THEN AfterRerank(rerank(query, candidates_list, top_k, load_ok, scorer),
                     candidates_list, top_k, use_reranking)
    ELSE [raised |-> FALSE, reranked |-> use_reranking, event |-> "skipped",
          results |-> Take(candidates_list, top_k)]

\* Step 1 of query() (query_engine.py:61-69): the variants searched.  lm is
\* NoLLM when expansion is off, else what generate returned.
Variants(query, expand_query, lm) ==
    <<query>> \o (IF expand_query THEN _expand_query(lm.response, ExpandN) ELSE <<>>)

\* EnrichedResult (query_engine.py:23-31); raised: an exception left query().
EnrichedResult(raised, query, expanded, results, use_hybrid, reranked, total) ==
    [raised           |-> raised,
     query            |-> query,
     expanded_queries |-> expanded,
     results          |-> results,
     retrieval_method |-> IF use_hybrid THEN "hybrid" ELSE "vector",
     reranked         |-> reranked,
     total_candidates |-> total]

\* ------------------------------------------------------------------ inputs
TextA == <<"Diabetes", "is", "common.", "Hypertension", "is", "common", "too.">>

TextB == <<"Dr.", "Smith", "treats", "diabetes.", "Hypertension", "is", "common.">>

TextC == <<"Diabetes", "is", "common.", "Hypertension", "is", "common.",
           "Hypertension", "is", "common", "too.">>

\* The add_document calls made on the dense index (documents.py:88-94,
\* seed_mimic.py:168-174); the third re-adds document d1 under another name.
DenseRequests ==
    {[document_id |-> "d1", document_name |-> "n.txt", text |-> TextA, chunk_size |-> 4, overlap |-> 1],
     [document_id |-> "d2", document_name |-> "m.txt", text |-> TextB, chunk_size |-> 4, overlap |-> 1],
     [document_id |-> "d1", document_name |-> "old.txt", text |-> TextC, chunk_size |-> 4, overlap |-> 1]}

\* The add_document calls made on the sparse index: chunk dicts with their
\* chunk_index, and the dicts chunk_text returns, which carry none.
SparseRequests ==
    {[document_id |-> "d1", document_name |-> "n.txt",
      chunks |-> << [text |-> <<"Hypertension", "is", "common", "too.">>, chunk_index |-> 0],
                    [text |-> <<"Diabetes", "is", "common.">>, chunk_index |-> 1],
                    [text |-> <<"Dr.", "Smith", "treats", "a", "beta-blocker">>, chunk_index |-> 2] >>],
     [document_id |-> "d2", document_name |-> "other.txt",
      chunks |-> chunk_text(TextB \o <<"Diabetes", "is", "common.">>, 4, 1)]}

UserQueries == {"diabetes", "hypertension is common", "   "}

NoRequest == [query |-> None]

NoResult == [raised |-> FALSE]

NoSearch == [log |-> <<>>, rerank |-> "none", scorer |-> "none"]

\* ------------------------------------------------------------------- Init
\* FineTuneService._jobs after __init__ (fine_tune.py:94-96): no job.  The
\* id of a job is its position in jobs.
NoJobs == <<>>

Init ==
    /\ index = <<>>
    /\ chunks = <<>>
    /\ corpus = <<>>
    /\ metadata = <<>>
    /\ bm25 = NoIndex
    /\ model_loaded = FALSE
    /\ dense_adds = 0
    /\ sparse_adds = 0
    /\ pc = "idle"
    /\ req = NoRequest
    /\ llm = NoLLM
    /\ searched = NoSearch
    /\ fused = <<>>
    /\ out = NoResult
    /\ disk = EmptyDisk
    /\ tasks = <<>>
    /\ resp = NoStream
    /\ jobs = NoJobs

\* ---------------------------------------------------------------- actions
\* add_document is synchronous and query() awaits only the LLM, so an
\* add_document runs before a call, or while the call is suspended in step 1;
\* nothing runs between the return of query() and its caller (pc = "done").
\* VectorStoreService.add_document (vector_store.py:144-181): chunk, embed,
\* append the vectors, append the metadata, save.
VectorStore_add_document(r) ==
    /\ pc # "done"
    /\ dense_adds < MaxDenseAdds
    /\ LET chunk_dicts == chunk_text(r.text, r.chunk_size, r.overlap)
       IN /\ index' = index \o [i \in 1..Len(chunk_dicts) |-> Embed(chunk_dicts[i].text)]
          /\ chunks' = chunks \o DenseMeta(chunk_dicts, r.document_id, r.document_name)
    /\ disk' = VectorStore_save_index(disk, index', chunks')
    /\ dense_adds' = dense_adds + 1
    /\ UNCHANGED <<corpus, metadata, bm25, model_loaded, sparse_adds, pc, req, llm,
                   searched, fused, out, tasks, resp, jobs>>

\* BM25Index.add_document (bm25_index.py:67-94): tokenize and append every
\* chunk, rebuild the BM25 statistics over the whole corpus, save.
BM25_add_document(r) ==
    /\ pc # "done"
    /\ sparse_adds < MaxSparseAdds
    /\ LET new_corpus == corpus \o [i \in 1..Len(r.chunks) |-> Tokenize(r.chunks[i].text)]
       IN /\ corpus' = new_corpus
          /\ bm25' = _rebuild_index(new_corpus)
    /\ metadata' = metadata \o SparseMeta(r.chunks, r.document_id, r.document_name)
    /\ disk' = BM25_save_index(disk, corpus', metadata')
    /\ sparse_adds' = sparse_adds + 1
    /\ UNCHANGED <<index, chunks, model_loaded, dense_adds, pc, req, llm,
                   searched, fused, out, tasks, resp, jobs>>

\* query() up to the end of step 1 (query_engine.py:41-69): the arguments
\* are bound and, with expand_query, the await on the LLM has returned.
QueryCall(q, top_k, use_reranking, expand_query, use_hybrid, env) ==
    /\ pc = "idle"
    /\ req' = [query |-> q, top_k |-> top_k, use_reranking |-> use_reranking,
               expand_query |-> expand_query, use_hybrid |-> use_hybrid]
    /\ llm' = IF expand_query
              THEN [called |-> TRUE, failed |-> LLMFailed(env), response |-> generate(env)]
              ELSE NoLLM
    /\ pc' = "retrieving"
    /\ UNCHANGED <<index, chunks, corpus, metadata, bm25, model_loaded, dense_adds,
                   sparse_adds, searched, fused, out, disk, tasks, resp, jobs>>

\* A return that counts the candidates after the truncation of step 3.
FinishCountsFused(rq, queries, all_candidates, candidates_list, step) ==
    [out |-> EnrichedResult(step.raised, rq.query, Tail(queries), step.results,
                            rq.use_hybrid, step.reranked, Len(candidates_list)),
     fused |-> candidates_list,
     log |-> RetrieveLog(queries, rq.use_hybrid)
             \o (IF rq.use_hybrid
                 THEN << <<"dense", rq.query>>, <<"bm25", rq.query>> >>
                 ELSE <<>>),
     rerank |-> step.event]

\* The return at the end of query() (query_engine.py:154-161) with the log
\* of the sub-searches made: the retrieval loop's, then _rrf_merge's.
FinishNonEmpty(rq, queries, all_candidates, candidates_list, step) ==
    [out |-> EnrichedResult(step.raised, rq.query, Tail(queries), step.results,
                            rq.use_hybrid, step.reranked, Len(all_candidates)),
     fused |-> candidates_list,
     log |-> RetrieveLog(queries, rq.use_hybrid)
             \o (IF rq.use_hybrid
                 THEN << <<"dense", rq.query>>, <<"bm25", rq.query>> >>
                 ELSE <<>>),
     rerank |-> step.event]

\* query() without the early return on an empty candidate set.
FinishNoEarlyReturn(rq, queries, all_candidates, candidates_list, step) ==
    FinishNonEmpty(rq, queries, all_candidates, candidates_list, step)

\* Steps 3-5 of query() once the candidates are retrieved
\* (query_engine.py:108-161): [out, fused, rerank].
Finish(rq, queries, all_candidates, candidates_list, step) ==
    IF all_candidates = <<>>
    THEN [out |-> EnrichedResult(FALSE, rq.query, Tail(queries), <<>>, rq.use_hybrid, FALSE, 0),
          fused |-> <<>>,
          log |-> RetrieveLog(queries, rq.use_hybrid),
          rerank |-> "skipped"]
    ELSE FinishNonEmpty(rq, queries, all_candidates, candidates_list, step)

Fused(rq, queries, all_candidates, candidates_list, load_ok, scorer) ==
    Finish(rq, queries, all_candidates, candidates_list,
           RerankStep(rq.query, candidates_list, rq.top_k, rq.use_reranking, load_ok, scorer))

\* Step 3 of query() on the candidates retrieved (query_engine.py:108-129):
\* what steps 4-5 read.
Retrieved(rq, queries, all_candidates) ==
    [queries |-> queries,
     all_candidates |-> all_candidates,
     candidates_list |-> IF all_candidates = <<>> THEN <<>>
                         ELSE Fuse(rq.query, all_candidates, rq.top_k * FetchFactor,
                                   rq.use_hybrid)]

\* Step 2 of query() on the variants (query_engine.py:71-106).
Expanded(rq, queries) ==
    Retrieved(rq, queries, Retrieve(queries, <<>>, rq.top_k * FetchFactor, rq.use_hybrid))

\* QueryEngine.query from the end of the await to the fused list
\* (query_engine.py:66-129).
Steps1To3(rq, lm) == Expanded(rq, Variants(rq.query, rq.expand_query, lm))

\* Steps 4-5 of query() (query_engine.py:131-161).
Steps4To5(rq, st, load_ok, scorer) ==
    Fused(rq, st.queries, st.all_candidates, st.candidates_list, load_ok, scorer)

\* Steps 2-5 of query() (query_engine.py:71-161), which contain no await.
\* load_ok: _get_model returns a model; scorer: the cross-encoder loaded, or
\* "raise" when predict raises.  The two are drawn only where the code
\* reads them: rerank() is not called without use_reranking, and predict()
\* is not called when the load failed.
QueryFinish ==
    /\ pc = "retrieving"
    /\ \E st \in {Steps1To3(req, llm)} :
       \E load_ok \in BOOLEAN, scorer \in Scorers \cup {"raise"} :
          /\ (model_loaded => load_ok)
          /\ (~req.use_reranking => load_ok /\ scorer = "A")
          /\ (~load_ok => scorer = "A")
          /\ \E res \in {Steps4To5(req, st, load_ok, scorer)} :
                /\ out' = res.out
                /\ fused' = res.fused
                /\ searched' = [log |-> res.log, rerank |-> res.rerank,
                                scorer |-> IF res.rerank = "scored" THEN scorer ELSE "none"]
                /\ model_loaded' = (model_loaded \/ res.rerank \in {"scored", "predict_error"})
    /\ pc' = "done"
    /\ UNCHANGED <<index, chunks, corpus, metadata, bm25, dense_adds, sparse_adds, req, llm,
                   disk, tasks, resp, jobs>>

\* The caller (rag.py:65) has consumed the EnrichedResult; the per-call
\* records are dropped.
QueryReturn ==
    /\ pc = "done"
    /\ pc' = "idle"
    /\ req' = NoRequest
    /\ llm' = NoLLM
    /\ searched' = NoSearch
    /\ fused' = <<>>
    /\ out' = NoResult
    /\ UNCHANGED <<index, chunks, corpus, metadata, bm25, model_loaded, dense_adds,
                   sparse_adds, disk, tasks, resp, jobs>>

\* The process is restarted between two calls: the new service instances
\* load the persisted files on first use (vector_store.py:55-75,
\* bm25_index.py:34-45, 76-77, 101-102) and no model is loaded.
Restart ==
    /\ pc = "idle"
    /\ \E dense \in {_get_index(disk)}, sparse \in {_load_index(disk)} :
          /\ index' = dense.index
          /\ chunks' = dense.chunks
          /\ corpus' = sparse.corpus
          /\ metadata' = sparse.metadata
          /\ bm25' = sparse.bm25
    /\ model_loaded' = FALSE
    /\ UNCHANGED <<dense_adds, sparse_adds, pc, req, llm, searched, fused, out, disk, tasks, resp, jobs>>

Next ==
    \/ \E r \in DenseRequests : VectorStore_add_document(r)
    \/ \E r \in SparseRequests : BM25_add_document(r)
    \/ \E q \in UserQueries, top_k \in 1..MaxTopK, use_reranking \in BOOLEAN,
          expand_query \in BOOLEAN, use_hybrid \in BOOLEAN, env \in LLMEnvs :
            QueryCall(q, top_k, use_reranking, expand_query, use_hybrid, env)
    \/ QueryFinish
    \/ QueryReturn
    \/ Restart

Spec == Init /\ [][Next]_vars

\* ================================================================= claims
\* The variants the call in flight searched, recomputed from its arguments
\* and from what the LLM returned.
CallQueries == <<req.query>> \o out.expanded_queries

CallFetchK == req.top_k * FetchFactor

\* What the sub-searches return, in retrieval order: the variants in order,
\* dense before sparse within a variant.
RECURSIVE RetrievalStream(_, _, _)
RetrievalStream(queries, fetch_k, use_hybrid) ==
    IF queries = <<>> THEN <<>>
    ELSE VectorSearch(Head(queries), fetch_k)
         \o (IF use_hybrid THEN BM25Search(Head(queries), fetch_k) ELSE <<>>)
         \o RetrievalStream(Tail(queries), fetch_k, use_hybrid)

DistinctKeys(rs) == \A i, j \in 1..Len(rs) : i # j => Key(rs[i]) # Key(rs[j])

\* r carries the text and the name of the first record of stream with r's key.
FromFirstOccurrence(r, stream) ==
    \E n \in 1..Len(stream) :
        /\ Key(stream[n]) = Key(r)
        /\ \A m \in 1..(n - 1) : Key(stream[m]) # Key(r)
        /\ r.chunk_text = stream[n].chunk_text
        /\ r.document_name = stream[n].document_name

DedupFirstWins(rs, stream) ==
    /\ DistinctKeys(rs)
    /\ \A i \in 1..Len(rs) : FromFirstOccurrence(rs[i], stream)

\* Some key of rs occurs in stream with two different texts or names.
ConflictingOccurrences(rs, stream) ==
    \E i \in 1..Len(rs), n, m \in 1..Len(stream) :
        /\ n < m
        /\ Key(stream[n]) = Key(rs[i])
        /\ Key(stream[m]) = Key(rs[i])
        /\ \/ stream[n].chunk_text # stream[m].chunk_text
           \/ stream[n].document_name # stream[m].document_name

C2_NoRaiseAtMostTopK ==
    pc = "done" => (~out.raised /\ Len(out.results) <= req.top_k)

\* The reranker raised while scoring a fused list longer than top_k, and
\* query() still returned top_k results.
C2_Witness ==
    /\ pc = "done"
    /\ searched.rerank = "predict_error"
    /\ Len(fused) > req.top_k
    /\ Len(out.results) = req.top_k

AllQueryStrings ==
    UserQueries \cup UNION {Range(_expand_query(generate(env), ExpandN)) : env \in LLMEnvs}

\* C3: on empty dense and sparse indices query() returns results = [],
\* total_candidates = 0, reranked = false and raises nothing, and every
\* dense and sparse search returns the empty list.
C3_EmptyIndex ==
    (index = <<>> /\ corpus = <<>>) =>
        /\ \A q \in AllQueryStrings, k \in 1..(MaxTopK * FetchFactor) :
               VectorSearch(q, k) = <<>> /\ BM25Search(q, k) = <<>>
        /\ pc = "done" =>
               /\ ~out.raised
               /\ out.results = <<>>
               /\ out.total_candidates = 0
               /\ out.reranked = FALSE

\* A call with all three stages switched on returned over empty indices.
C3_Witness ==
    /\ index = <<>>
    /\ corpus = <<>>
    /\ pc = "done"
    /\ req.use_reranking /\ req.use_hybrid /\ req.expand_query
    /\ Len(out.expanded_queries) = 2

\* C4: an empty or whitespace-only query returns no results and invokes
\* neither the dense nor the sparse search.
C4_BlankQueryNoSearch ==
    (pc = "done" /\ IsBlank(req.query)) => (out.results = <<>> /\ searched.log = <<>>)

\* C5: when the generation collaborator fails, the expander contributes no
\* variant: only the original query is searched, expanded_queries is empty
\* and no error reaches the caller.
C5_ExpansionFailureNoVariants ==
    (pc = "done" /\ llm.called /\ llm.failed) =>
        /\ ~out.raised
        /\ out.expanded_queries = <<>>
        /\ \A n \in 1..Len(searched.log) : searched.log[n][2] = req.query

\* C6: when reranking is requested and the model cannot be loaded, the
\* EnrichedResult has reranked = false.
C6_FallbackReportsNotReranked ==
    (pc = "done" /\ req.use_reranking /\ searched.rerank = "fallback") => out.reranked = FALSE

MinOf(a, b) == IF a < b THEN a ELSE b

\* rs are the first top_k of cs, in order, every score copied from the
\* candidate's score.
FallbackOf(rs, cs, top_k) ==
    /\ Len(rs) = MinOf(top_k, Len(cs))
    /\ \A i \in 1..Len(rs) :
          /\ Key(rs[i]) = Key(cs[i])
          /\ rs[i].chunk_text = cs[i].chunk_text
          /\ rs[i].document_name = cs[i].document_name
          /\ rs[i].score = cs[i].score
          /\ rs[i].original_score = cs[i].score

\* C7: when the model cannot be loaded, rerank raises nothing and returns
\* the first top_k candidates in input order with rerank_score equal to
\* original_score, so the final order is the fused order cut to top_k.
C7_FallbackKeepsFusedOrder ==
    (pc = "done" /\ searched.rerank = "fallback") =>
        (~out.raised /\ FallbackOf(out.results, fused, req.top_k))

\* The model failed to load on a hybrid call whose fused list is longer
\* than top_k and carries different scores.
C7_Witness ==
    /\ pc = "done"
    /\ searched.rerank = "fallback"
    /\ req.use_hybrid
    /\ Len(fused) > req.top_k
    /\ req.top_k = 2
    /\ fused[1].score # fused[2].score

\* The cross-encoder score of candidate c in the call in flight.
RerankScoreOf(c) == FInt(predict(searched.scorer, req.query, c.chunk_text))

\* rs is a selection of at most top_k of the candidates cs, each once, with
\* its input score as original_score and its cross-encoder score as score,
\* best first, and no candidate left out beats one that is in.
ScoredSelection(rs, cs, top_k) ==
    /\ Len(rs) = MinOf(top_k, Len(cs))
    /\ DistinctKeys(rs)
    /\ \A i \in 1..Len(rs) :
          \E n \in 1..Len(cs) :
              /\ Key(cs[n]) = Key(rs[i])
              /\ rs[i].chunk_text = cs[n].chunk_text
              /\ rs[i].original_score = cs[n].score
              /\ rs[i].score = RerankScoreOf(cs[n])
    /\ \A i \in 1..(Len(rs) - 1) : FLeq(rs[i + 1].score, rs[i].score)
    /\ \A n \in 1..Len(cs) :
          (\A i \in 1..Len(rs) : Key(rs[i]) # Key(cs[n])) =>
              \A i \in 1..Len(rs) : FLeq(RerankScoreOf(cs[n]), rs[i].score)

\* C8: with the scoring model available, rerank returns at most top_k
\* RankedResults, each built from a distinct input candidate with that
\* candidate's score as original_score, ordered by rerank_score
\* non-increasing, and no candidate left out has a strictly higher
\* rerank_score than a returned one.
C8_RerankTopKByScore ==
    (pc = "done" /\ searched.rerank = "scored") =>
        ScoredSelection(out.results, fused, req.top_k)

\* The scorer reordered the fused list: the best candidate of the fused
\* order is left out of the top_k returned.
C8_Witness ==
    /\ pc = "done"
    /\ searched.rerank = "scored"
    /\ Len(fused) > req.top_k
    /\ \A i \in 1..Len(out.results) : Key(out.results[i]) # Key(fused[1])
    /\ \E i, j \in 1..Len(fused) : ~FEq(RerankScoreOf(fused[i]), RerankScoreOf(fused[j]))

\* The 0-based position of the candidate with the given key in the result
\* list rs, NoRank when it is absent.
PositionOf(rs, key) ==
    IF \A i \in 1..Len(rs) : Key(rs[i]) # key THEN NoRank
    ELSE (CHOOSE i \in 1..Len(rs) : Key(rs[i]) = key /\ \A j \in 1..(i - 1) : Key(rs[j]) # key) - 1

\* 1/(60 + r), 0 for an absent candidate.
Reciprocal(r) == IF r = NoRank THEN Frac(0, 1) ELSE Frac(1, 60 + r)

\* The score of c is the sum of the reciprocal ranks of c in the two lists.
IsRRFSum(c, dense, sparse) ==
    FEq(c.score, FAdd(Reciprocal(PositionOf(dense, Key(c))),
                      Reciprocal(PositionOf(sparse, Key(c)))))

RRFSums(cs, dense, sparse) ==
    /\ \A i \in 1..Len(cs) : IsRRFSum(cs[i], dense, sparse) /\ FLeq(Frac(0, 1), cs[i].score)
    /\ \A i, j \in 1..Len(cs) :
          /\ PositionOf(dense, Key(cs[i])) = 0 /\ PositionOf(sparse, Key(cs[i])) = 0
          /\ PositionOf(dense, Key(cs[j])) = 0 /\ PositionOf(sparse, Key(cs[j])) = NoRank
          => FEq(cs[i].score, FAdd(cs[j].score, cs[j].score))

\* C9: in hybrid mode the score of every fused candidate is the sum over
\* the dense and the sparse ranker of 1/(60 + r), r the candidate's 0-based
\* position in the ranker's list, 0 for a ranker that does not list it; so
\* rank 0 in both rankers scores twice rank 0 in one, and no score is
\* negative.
C9_RRFScore ==
    (pc = "done" /\ req.use_hybrid) =>
        RRFSums(fused, VectorSearch(req.query, CallFetchK), BM25Search(req.query, CallFetchK))

\* The dense similarity score with which the sub-searches first delivered
\* the candidate c.
DenseScoreOf(c, stream) == stream[PositionOf(stream, Key(c)) + 1].score

NonIncreasingDense(cs, stream) ==
    \A i \in 1..(Len(cs) - 1) : FLeq(DenseScoreOf(cs[i + 1], stream), DenseScoreOf(cs[i], stream))

\* C10: with use_hybrid false the candidate list of query(), before
\* reranking, is ordered by dense similarity score, non-increasing, for any
\* number of query variants.
C10_VectorModeSortedByDenseScore ==
    (pc = "done" /\ ~req.use_hybrid) =>
        NonIncreasingDense(fused, RetrievalStream(CallQueries, CallFetchK, FALSE))

\* candidates_list of a hybrid run over the present indices that searches
\* the variants vs.
HybridFusedFor(vs, fetch_k) ==
    Fuse(Head(vs), Retrieve(vs, <<>>, fetch_k, TRUE), fetch_k, TRUE)

\* Every key that the lists as and bs share carries the same score in both.
SameScores(as, bs) ==
    \A i \in 1..Len(as), j \in 1..Len(bs) :
        Key(as[i]) = Key(bs[j]) => FEq(as[i].score, bs[j].score)

\* The candidates of cs that the searches of the original query (stream)
\* did not deliver score 0.
VariantOnlyScoreZero(cs, stream) ==
    \A i \in 1..Len(cs) : Key(cs[i]) \notin Keys(stream) => FEq(cs[i].score, FZero)

\* C11: in hybrid mode the fused score of a candidate depends only on the
\* rankings of the original query: whatever variants the call searched,
\* every candidate it shares with the run over the same indices that
\* searches the original query alone has the fused score of that run, and
\* a candidate reached only through an expanded variant has fused score 0.
C11_FusedScoreFromOriginalOnly ==
    (pc = "done" /\ req.use_hybrid) =>
        /\ SameScores(fused, HybridFusedFor(<<req.query>>, CallFetchK))
        /\ VariantOnlyScoreZero(fused, RetrievalStream(<<req.query>>, CallFetchK, TRUE))

\* A hybrid run whose fused list holds a candidate that only an expanded
\* variant reached, next to a candidate with a positive score that the run
\* without expansion also fuses.
C11_Witness ==
    /\ pc = "done"
    /\ req.use_hybrid
    /\ Len(CallQueries) > 1
    /\ \E i \in 1..Len(fused) :
          Key(fused[i]) \notin Keys(RetrievalStream(<<req.query>>, CallFetchK, TRUE))
    /\ \E i \in 1..Len(fused) :
          /\ FLess(FZero, fused[i].score)
          /\ Key(fused[i]) \in Keys(HybridFusedFor(<<req.query>>, CallFetchK))

\* The query strings of the dense searches of a log, in order.
DenseQueries(log) ==
    LET dense == SelectSeq(log, LAMBDA e : e[1] = "dense")
    IN [n \in 1..Len(dense) |-> dense[n][2]]

\* s starts with p, and whatever follows p in s is x.
PrefixThenOnly(s, p, x) ==
    /\ Len(p) <= Len(s)
    /\ \A n \in 1..Len(s) : s[n] = IF n <= Len(p) THEN p[n] ELSE x

\* The variants the expander produced for the call in flight.
GeneratedVariants ==
    IF req.expand_query THEN _expand_query(llm.response, ExpandN) ELSE <<>>

\* C12: the EnrichedResult reports faithful provenance: query is the
\* original query, which is the first variant searched; expanded_queries is
\* exactly the list of variants searched after it; retrieval_method is
\* "hybrid" iff use_hybrid and "vector" otherwise; total_candidates is the
\* number of distinct (document_id, chunk_index) keys collected over all
\* variants and rankers, hence at least len(results).
C12_FaithfulProvenance ==
    pc = "done" =>
        /\ out.query = req.query
        /\ searched.log[1] = <<"dense", req.query>>
        /\ out.expanded_queries = GeneratedVariants
        /\ PrefixThenOnly(DenseQueries(searched.log),
                          <<req.query>> \o out.expanded_queries, req.query)
        /\ out.retrieval_method = (IF req.use_hybrid THEN "hybrid" ELSE "vector")
        /\ out.total_candidates =
               Cardinality(Keys(RetrievalStream(CallQueries, CallFetchK, req.use_hybrid)))
        /\ out.total_candidates >= Len(out.results)

\* A call with two expanded variants that collected more distinct keys than
\* the fused list keeps, out of searches that delivered some key twice.
C12_Witness ==
    /\ pc = "done"
    /\ Len(out.expanded_queries) = 2
    /\ out.total_candidates > Len(fused)
    /\ Len(fused) > Len(out.results)
    /\ Len(RetrievalStream(CallQueries, CallFetchK, req.use_hybrid)) > out.total_candidates

\* ============================================================== chunk_text
\* chunk_text as a function of its arguments: the arguments are drawn in the
\* initial state and the call returns in one step.
MaxSentences == 4

MaxChunkSize == 5

MaxOverlap == 4

\* The pieces the texts are made of: sentences of 3, 4 and 1 words, one
\* that starts with an abbreviation, and words without a closing stop.
ChunkPieces ==
    { <<"Diabetes", "is", "common.">>,
      <<"Hypertension", "is", "common", "too.">>,
      <<"Dr.", "Smith", "treats", "diabetes.">>,
      <<"too.">>,
      <<"Hypertension", "is", "common">> }

\* Every text of at most MaxSentences pieces.
RECURSIVE TextsOf(_)
TextsOf(n) ==
    IF n = 0 THEN {<<>>}
    ELSE TextsOf(n - 1) \cup {t \o p : t \in TextsOf(n - 1), p \in ChunkPieces}

ChunkTexts == TextsOf(MaxSentences)

\* How the words of the text of a call are separated: by one space each with
\* none at the ends, or by any other white space (runs of spaces, newlines,
\* leading or trailing white space).  re.split on \s+ and str.split
\* (vector_store.py:89-92, 109) yield the same words for both.
Spacings == {"single", "irregular"}

\* A string as its words and how they are separated.
Str(words, spacing) == [words |-> words, spacing |-> spacing]

\* " ".join(current_words) (vector_store.py:113, 139).
Join(words) == Str(words, "single")

ChunkRequests ==
    [text : ChunkTexts, chunk_size : 1..MaxChunkSize, overlap : 0..MaxOverlap,
     spacing : Spacings]

NoChunks == [raised |-> FALSE, chunks |-> <<>>]

ChunkInit ==
    /\ index = <<>>
    /\ chunks = <<>>
    /\ corpus = <<>>
    /\ metadata = <<>>
    /\ bm25 = NoIndex
    /\ model_loaded = FALSE
    /\ dense_adds = 0
    /\ sparse_adds = 0
    /\ pc = "chunk_call"
    /\ req \in ChunkRequests
    /\ llm = NoLLM
    /\ searched = NoSearch
    /\ fused = <<>>
    /\ out = NoChunks
    /\ disk = EmptyDisk
    /\ tasks = <<>>
    /\ resp = NoStream
    /\ jobs = NoJobs

\* VectorStoreService.chunk_text (vector_store.py:94-142) called with the
\* arguments req; out.chunks is the list it returns.
ChunkCall ==
    /\ pc = "chunk_call"
    /\ out' = [raised |-> FALSE, chunks |-> chunk_text(req.text, req.chunk_size, req.overlap)]
    /\ pc' = "chunked"
    /\ UNCHANGED <<index, chunks, corpus, metadata, bm25, model_loaded, dense_adds,
                   sparse_adds, req, llm, searched, fused, disk, tasks, resp, jobs>>

ChunkNext == ChunkCall

ChunkSpec == ChunkInit /\ [][ChunkNext]_vars

\* The sentences of the text of the call.
SourceSentences == _split_sentences(req.text)

\* The words of the sentences i..j of sents.
Run(sents, i, j) == Flatten(SubSeq(sents, i, j))

\* The runs i..j of whole consecutive sentences whose words are ws.
RunsOf(ws, sents) ==
    {r \in (1..Len(sents)) \X (1..Len(sents)) : r[1] <= r[2] /\ Run(sents, r[1], r[2]) = ws}

\* C13: every chunk returned by chunk_text is the concatenation of one or
\* more whole, consecutive source sentences: it starts where a sentence
\* starts and ends where a sentence ends.
C13_ChunksAreWholeSentences ==
    pc = "chunked" =>
        \A n \in 1..Len(out.chunks) : RunsOf(out.chunks[n].text, SourceSentences) # {}

\* Three chunks out of a text with an abbreviation, one of them of two
\* sentences, with a positive overlap budget.
C13_Witness ==
    /\ pc = "chunked"
    /\ Len(out.chunks) = 3
    /\ req.overlap > 0
    /\ \E i \in 1..Len(req.text) : IsAbbreviation(req.text[i])
    /\ \E n \in 1..Len(out.chunks) :
          \E r \in RunsOf(out.chunks[n].text, SourceSentences) : r[1] < r[2]

\* C14: a sentence whose word count exceeds chunk_size is emitted unsplit
\* as its own chunk: a chunk that contains it contains no other sentence.
C14_OversizedSentenceAlone ==
    pc = "chunked" =>
        \A n \in 1..Len(out.chunks) :
            \A r \in RunsOf(out.chunks[n].text, SourceSentences) :
                \A k \in r[1]..r[2] :
                    Len(SourceSentences[k]) > req.chunk_size => r[1] = r[2]

\* The sentences of the closed chunk that the next chunk starts with: the
\* longest run of trailing whole sentences of at most overlap words.
RECURSIVE TrailingRun(_, _)
TrailingRun(sents, overlap) ==
    IF sents = <<>> \/ Len(sents[Len(sents)]) > overlap THEN <<>>
    ELSE Append(TrailingRun(SubSeq(sents, 1, Len(sents) - 1),
                            overlap - Len(sents[Len(sents)])),
                sents[Len(sents)])

\* ws starts with the words p and goes on with at least one more word.
StartsWith(ws, p) == Len(ws) > Len(p) /\ SubSeq(ws, 1, Len(p)) = p

\* The chunk next starts with the trailing run of the chunk prev, for some
\* reading of prev as a run of source sentences, and then goes on with the
\* sentence that follows prev in the source.
ContinuesWithOverlap(prev, next, sents, overlap) ==
    \E r \in RunsOf(prev, sents) :
        /\ r[2] < Len(sents)
        /\ Len(Flatten(TrailingRun(SubSeq(sents, r[1], r[2]), overlap))) <= overlap
        /\ StartsWith(next, Flatten(TrailingRun(SubSeq(sents, r[1], r[2]), overlap)))
        /\ \E j \in (r[2] + 1)..Len(sents) :
              next = Flatten(TrailingRun(SubSeq(sents, r[1], r[2]), overlap))
                     \o Run(sents, r[2] + 1, j)

\* C15: every chunk after the first starts with the trailing whole
\* sentences of the previous chunk, the longest run of them whose word count
\* is at most overlap, so the words the two chunks share through it are at
\* most overlap words.
C15_OverlapIsTrailingSentences ==
    pc = "chunked" =>
        \A n \in 2..Len(out.chunks) :
            ContinuesWithOverlap(out.chunks[n - 1].text, out.chunks[n].text,
                                 SourceSentences, req.overlap)

\* A chunk that starts with two sentences carried from the previous chunk,
\* whose third sentence from the end did not fit the overlap budget.
C15_Witness ==
    /\ pc = "chunked"
    /\ Len(out.chunks) >= 2
    /\ \E n \in 2..Len(out.chunks) :
          \E r \in RunsOf(out.chunks[n - 1].text, SourceSentences) :
              /\ r[2] - r[1] >= 2
              /\ Len(TrailingRun(SubSeq(SourceSentences, r[1], r[2]), req.overlap)) = 2

\* The searches of an instance with the dense state dense and the sparse
\* state sparse return what the searches of the running instance return.
SameSearchResults(dense, sparse) ==
    \A q \in AllQueryStrings, k \in 1..(MaxTopK * FetchFactor) :
        /\ VectorSearchOn(dense.index, dense.chunks, q, k) = VectorSearch(q, k)
        /\ BM25SearchOn(sparse.bm25, sparse.corpus, sparse.metadata, q, k) = BM25Search(q, k)

\* C16: after any sequence of successful add_document calls, a fresh
\* instance that loads the persisted files returns, for every query and
\* top_k, the same ordered result list (same chunks, same scores) as the
\* instance that wrote them, for the dense and for the sparse index.
C16_SaveLoadRoundTrip ==
    pc = "idle" => SameSearchResults(_get_index(disk), _load_index(disk))

\* Both stores were written by several add_document calls, and the fresh
\* instance finds three dense results with different scores and a sparse
\* one.
C16_Witness ==
    /\ pc = "idle"
    /\ dense_adds = 2
    /\ sparse_adds = 1
    /\ disk.index_faiss.exists /\ disk.bm25_corpus.exists
    /\ \E q \in UserQueries :
          /\ Len(VectorSearchOn(_get_index(disk).index, _get_index(disk).chunks, q, 3)) = 3
          /\ ~FEq(VectorSearchOn(_get_index(disk).index, _get_index(disk).chunks, q, 3)[1].score,
                  VectorSearchOn(_get_index(disk).index, _get_index(disk).chunks, q, 3)[3].score)
          /\ BM25SearchOn(_load_index(disk).bm25, _load_index(disk).corpus,
                          _load_index(disk).metadata, q, 2) # <<>>

\* ================================================== ingestion, step by step
\* add_document and search as the event loop runs them.  Every caller is a
\* coroutine (documents.py:33, graph.py:146, tool_registry.py:98,
\* query_engine.py:41) and neither add_document nor search contains an
\* await, so a call that has started runs to its return before any other
\* call starts.  A write to a file may fail, and the process may be killed
\* between any two steps.

\* A call that yields to the event loop in the middle of its steps.
Preemptible == TRUE

\* The event loop can start a call: no add_document is in the middle of its
\* steps.
EventLoopFree == tasks = <<>>

\* The add_document call with number i is at the given step.
AtStep(i, kind, step) ==
    /\ i \in 1..Len(tasks)
    /\ tasks[i].kind = kind
    /\ tasks[i].step = step

Advance(i, step) == [tasks EXCEPT ![i].step = step]

Return(i) == SubSeq(tasks, 1, i - 1) \o SubSeq(tasks, i + 1, Len(tasks))

NoObservation == [raised |-> FALSE]

\* What add_document hands to its caller after self._save_index()
\* (vector_store.py:179-181, bm25_index.py:92-94): the chunk count, or the
\* exception of the write, which no handler catches.
AfterSave(io_error, n) ==
    IF io_error THEN [raised |-> TRUE, io_error |-> TRUE]
    ELSE [raised |-> FALSE, io_error |-> FALSE, chunk_count |-> n]

\* The numbers the add_document calls in flight can carry.
TaskIds == 1..(MaxDenseAdds + MaxSparseAdds)

\* vector_store.py:154-167: chunk, embed, index.add(embeddings).  The
\* coroutine that searched before has its results: they are dropped.
DenseBegin(r) ==
    /\ pc = "idle"
    /\ EventLoopFree
    /\ dense_adds < MaxDenseAdds
    /\ LET chunk_dicts == chunk_text(r.text, r.chunk_size, r.overlap)
       IN /\ index' = index \o [i \in 1..Len(chunk_dicts) |-> Embed(chunk_dicts[i].text)]
          /\ tasks' = Append(tasks, [kind |-> "dense", step |-> "vectors_added",
                                     document_id |-> r.document_id,
                                     document_name |-> r.document_name,
                                     chunk_dicts |-> chunk_dicts])
    /\ dense_adds' = dense_adds + 1
    /\ req' = NoRequest
    /\ out' = NoObservation
    /\ UNCHANGED <<chunks, corpus, metadata, bm25, model_loaded, sparse_adds, pc, llm,
                   searched, fused, disk, resp, jobs>>

\* vector_store.py:169-177: the metadata loop.
DenseAppendMeta(i) ==
    /\ AtStep(i, "dense", "vectors_added")
    /\ chunks' = chunks \o DenseMeta(tasks[i].chunk_dicts, tasks[i].document_id,
                                     tasks[i].document_name)
    /\ tasks' = Advance(i, "meta_appended")
    /\ UNCHANGED <<index, corpus, metadata, bm25, model_loaded, dense_adds, sparse_adds, pc,
                   req, llm, searched, fused, out, disk, resp, jobs>>

\* vector_store.py:80: faiss.write_index.
DenseWriteFaiss(i) ==
    /\ AtStep(i, "dense", "meta_appended")
    /\ disk' = WriteFaiss(disk, index)
    /\ tasks' = Advance(i, "faiss_written")
    /\ UNCHANGED <<index, chunks, corpus, metadata, bm25, model_loaded, dense_adds,
                   sparse_adds, pc, req, llm, searched, fused, out, resp, jobs>>

\* vector_store.py:81-82 and 179-181: pickle.dump(self._chunks), return.
DenseWritePkl(i) ==
    /\ AtStep(i, "dense", "faiss_written")
    /\ disk' = WriteChunksPkl(disk, chunks)
    /\ out' = AfterSave(FALSE, Len(tasks[i].chunk_dicts))
    /\ tasks' = Return(i)
    /\ UNCHANGED <<index, chunks, corpus, metadata, bm25, model_loaded, dense_adds,
                   sparse_adds, pc, req, llm, searched, fused, resp, jobs>>

\* bm25_index.py:80-89: the append loop over the chunks.
SparseBegin(r) ==
    /\ pc = "idle"
    /\ EventLoopFree
    /\ sparse_adds < MaxSparseAdds
    /\ corpus' = corpus \o [i \in 1..Len(r.chunks) |-> Tokenize(r.chunks[i].text)]
    /\ metadata' = metadata \o SparseMeta(r.chunks, r.document_id, r.document_name)
    /\ tasks' = Append(tasks, [kind |-> "sparse", step |-> "corpus_appended",
                               document_id |-> r.document_id,
                               document_name |-> r.document_name,
                               chunk_dicts |-> r.chunks])
    /\ sparse_adds' = sparse_adds + 1
    /\ req' = NoRequest
    /\ out' = NoObservation
    /\ UNCHANGED <<index, chunks, bm25, model_loaded, dense_adds, pc, llm, searched,
                   fused, disk, resp, jobs>>

\* bm25_index.py:91: self._rebuild_index().
SparseRebuild(i) ==
    /\ AtStep(i, "sparse", "corpus_appended")
    /\ bm25' = _rebuild_index(corpus)
    /\ tasks' = Advance(i, "rebuilt")
    /\ UNCHANGED <<index, chunks, corpus, metadata, model_loaded, dense_adds, sparse_adds,
                   pc, req, llm, searched, fused, out, disk, resp, jobs>>

\* bm25_index.py:49-50: pickle.dump(self._corpus).
SparseWriteCorpus(i) ==
    /\ AtStep(i, "sparse", "rebuilt")
    /\ disk' = WriteCorpusPkl(disk, corpus)
    /\ tasks' = Advance(i, "corpus_written")
    /\ UNCHANGED <<index, chunks, corpus, metadata, bm25, model_loaded, dense_adds,
                   sparse_adds, pc, req, llm, searched, fused, out, resp, jobs>>

\* bm25_index.py:51-52 and 92-94: pickle.dump(self._metadata), return.
SparseWriteMeta(i) ==
    /\ AtStep(i, "sparse", "corpus_written")
    /\ disk' = WriteMetaPkl(disk, metadata)
    /\ out' = AfterSave(FALSE, Len(tasks[i].chunk_dicts))
    /\ tasks' = Return(i)
    /\ UNCHANGED <<index, chunks, corpus, metadata, bm25, model_loaded, dense_adds,
                   sparse_adds, pc, req, llm, searched, fused, resp, jobs>>

\* The next write of _save_index raises (disk full, permission): the
\* exception leaves add_document, which has no handler; what was appended in
\* memory and what was already written stay.
SaveFails(i) ==
    /\ i \in 1..Len(tasks)
    /\ tasks[i].step \in {"meta_appended", "faiss_written", "rebuilt", "corpus_written"}
    /\ out' = AfterSave(TRUE, Len(tasks[i].chunk_dicts))
    /\ tasks' = Return(i)
    /\ UNCHANGED <<index, chunks, corpus, metadata, bm25, model_loaded, dense_adds,
                   sparse_adds, pc, req, llm, searched, fused, disk, resp, jobs>>

\* One dense and one sparse search of a coroutine (vector_store.py:183-211,
\* bm25_index.py:96-129), with what the two searches read: the number of
\* vectors, of metadata entries, the corpus, the corpus the BM25 statistics
\* were built on, and the add_document calls in the middle of their steps.
StoreSearch(q, top_k) ==
    /\ pc = "idle"
    /\ EventLoopFree
    /\ out' = [raised |-> FALSE,
               ntotal |-> Len(index),
               nchunks |-> Len(chunks),
               corpus |-> corpus,
               built_on |-> bm25.corpus,
               in_flight |-> tasks,
               dense |-> VectorSearch(q, top_k),
               sparse |-> BM25Search(q, top_k)]
    /\ req' = [query |-> q, top_k |-> top_k]
    /\ UNCHANGED <<index, chunks, corpus, metadata, bm25, model_loaded, dense_adds,
                   sparse_adds, pc, llm, searched, fused, disk, tasks, resp, jobs>>

\* The process is killed and started again: the calls in flight are gone
\* and the new instances load what the files hold.
Crash ==
    /\ \E dense \in {_get_index(disk)}, sparse \in {_load_index(disk)} :
          /\ index' = dense.index
          /\ chunks' = dense.chunks
          /\ corpus' = sparse.corpus
          /\ metadata' = sparse.metadata
          /\ bm25' = sparse.bm25
    /\ tasks' = <<>>
    /\ model_loaded' = FALSE
    /\ req' = NoRequest
    /\ out' = NoObservation
    /\ UNCHANGED <<dense_adds, sparse_adds, pc, llm, searched, fused, disk, resp, jobs>>

StoreNext ==
    \/ \E r \in DenseRequests : DenseBegin(r)
    \/ \E r \in SparseRequests : SparseBegin(r)
    \/ \E i \in TaskIds : DenseAppendMeta(i)
    \/ \E i \in TaskIds : DenseWriteFaiss(i)
    \/ \E i \in TaskIds : DenseWritePkl(i)
    \/ \E i \in TaskIds : SparseRebuild(i)
    \/ \E i \in TaskIds : SparseWriteCorpus(i)
    \/ \E i \in TaskIds : SparseWriteMeta(i)
    \/ \E i \in TaskIds : SaveFails(i)
    \/ \E q \in UserQueries, top_k \in 1..MaxTopK : StoreSearch(q, top_k)

StoreSpec == Init /\ [][StoreNext]_vars

CrashNext == StoreNext \/ Crash

CrashSpec == Init /\ [][CrashNext]_vars

\* metadata entry i describes vector i, for every i.
Aligned(vectors, meta) ==
    /\ Len(vectors) = Len(meta)
    /\ \A i \in 1..Len(vectors) : vectors[i] = Embed(meta[i].chunk_text)

\* C17: in the dense index metadata[i] describes vector[i]: whenever no
\* add_document is in the middle of its steps, in memory and in the
\* persisted file pair, there are as many vectors as metadata entries and
\* they are positionally aligned, also after a call that failed part-way
\* and after a crash between the two writes followed by a reload.
C17_DenseAligned ==
    tasks = <<>> =>
        /\ Aligned(index, chunks)
        /\ Aligned(disk.index_faiss.data, disk.chunks_pkl.data)

C18_BothIndicesHoldSameKeys ==
    [][(\E r \in DenseRequests : VectorStore_add_document(r))
           => Keys(metadata') = Keys(chunks')]_vars

\* ------------------------------------------- the wait of query expansion
\* query() awaits _expand_query, which awaits generate, which reads the
\* provider's response line by line (llm.py:64-139).  The only timeout is
\* the one of the httpx clients, timeout=60.0 (llm.py:52, 60): it bounds the
\* wait for each read, not the response.  Time is counted in ticks.
ReadTimeout == 2

\* The provider generate_stream asks first (llm.py:74-76, 84-85).
FirstProvider(env) ==
    IF env.groq_key THEN "groq" ELSE IF env.google_key THEN "gemini" ELSE "none"

\* The provider asked after provider p raised (llm.py:80-85).
AfterFailure(env, p) ==
    IF p = "groq" /\ env.google_key THEN "gemini" ELSE "none"

\* Provider p raised: it did not produce the text.
MarkFailed(env, p) ==
    IF p = "groq" THEN [env EXCEPT !.groq_ok = FALSE] ELSE [env EXCEPT !.gemini_ok = FALSE]

\* The provider of the open response answers with the text.
Answers(env, p) == (p = "groq" /\ env.groq_ok) \/ (p = "gemini" /\ env.gemini_ok)

\* client.stream("POST", ...) as resp (llm.py:124, 155); idle: ticks since
\* the last read returned; skipped: the loop over the lines took a continue.
Open(env, p) == [open |-> TRUE, provider |-> p, idle |-> 0, skipped |-> FALSE, env |-> env]

Reading == pc = "expanding" /\ resp.provider # "none"

\* query(expand_query=True) up to the await of step 1
\* (query_engine.py:41-65).
ExpandCall(q, top_k, use_reranking, use_hybrid, env) ==
    /\ pc = "idle"
    /\ req' = [query |-> q, top_k |-> top_k, use_reranking |-> use_reranking,
               expand_query |-> TRUE, use_hybrid |-> use_hybrid]
    /\ resp' = Open(env, FirstProvider(env))
    /\ pc' = "expanding"
    /\ UNCHANGED <<index, chunks, corpus, metadata, bm25, model_loaded, dense_adds,
                   sparse_adds, llm, searched, fused, out, disk, tasks, jobs>>

\* Time passes while aiter_lines waits for the next line.
Tick ==
    /\ Reading
    /\ resp.idle < ReadTimeout
    /\ resp' = [resp EXCEPT !.idle = resp.idle + 1]
    /\ UNCHANGED <<index, chunks, corpus, metadata, bm25, model_loaded, dense_adds,
                   sparse_adds, pc, req, llm, searched, fused, out, disk, tasks, jobs>>

\* The provider, which answered with status 200, sends a line that carries
\* no end of the response: one that does not start with "data: ", or a
\* delta without content (llm.py:126-139, 157-168).  The read returns, the
\* loop continues.
KeepAliveLine ==
    /\ Reading
    /\ Answers(resp.env, resp.provider)
    /\ resp.idle > 0
    /\ resp' = [resp EXCEPT !.idle = 0, !.skipped = TRUE]
    /\ UNCHANGED <<index, chunks, corpus, metadata, bm25, model_loaded, dense_adds,
                   sparse_adds, pc, req, llm, searched, fused, out, disk, tasks, jobs>>

\* The provider ends the response ("[DONE]" or end of stream): generate
\* returns the joined tokens and step 1 of query() ends
\* (llm.py:77-78, 86-87, 106-110; query_engine.py:65-67).
StreamEnds ==
    /\ Reading
    /\ Answers(resp.env, resp.provider)
    /\ llm' = [called |-> TRUE, failed |-> FALSE, response |-> generate(resp.env)]
    /\ resp' = NoStream
    /\ pc' = "retrieving"
    /\ UNCHANGED <<index, chunks, corpus, metadata, bm25, model_loaded, dense_adds,
                   sparse_adds, req, searched, fused, out, disk, tasks, jobs>>

\* The exception handlers of generate_stream (llm.py:79-89): the next
\* provider is asked, if any.
Fallback ==
    resp' = Open(MarkFailed(resp.env, resp.provider), AfterFailure(resp.env, resp.provider))

\* The provider answers with an error status: raise_for_status raises
\* (llm.py:125, 156).
ProviderError ==
    /\ Reading
    /\ ~Answers(resp.env, resp.provider)
    /\ Fallback
    /\ UNCHANGED <<index, chunks, corpus, metadata, bm25, model_loaded, dense_adds,
                   sparse_adds, pc, req, llm, searched, fused, out, disk, tasks, jobs>>

\* No line arrived for timeout seconds: the read raises httpx.ReadTimeout.
ReadTimeoutRaised ==
    /\ Reading
    /\ resp.idle = ReadTimeout
    /\ Fallback
    /\ UNCHANGED <<index, chunks, corpus, metadata, bm25, model_loaded, dense_adds,
                   sparse_adds, pc, req, llm, searched, fused, out, disk, tasks, jobs>>

\* No provider is left: generate_stream yields its warning sentence and
\* generate returns it (llm.py:91-98, 106-110).
GenerateReturns ==
    /\ pc = "expanding"
    /\ resp.provider = "none"
    /\ llm' = [called |-> TRUE, failed |-> TRUE, response |-> generate(resp.env)]
    /\ resp' = NoStream
    /\ pc' = "retrieving"
    /\ UNCHANGED <<index, chunks, corpus, metadata, bm25, model_loaded, dense_adds,
                   sparse_adds, req, searched, fused, out, disk, tasks, jobs>>

ExpandNext ==
    \/ \E r \in DenseRequests : VectorStore_add_document(r)
    \/ \E r \in SparseRequests : BM25_add_document(r)
    \/ \E q \in UserQueries, top_k \in 1..MaxTopK, use_reranking \in BOOLEAN,
          use_hybrid \in BOOLEAN, env \in LLMEnvs :
            ExpandCall(q, top_k, use_reranking, use_hybrid, env)
    \/ Tick
    \/ KeepAliveLine
    \/ StreamEnds
    \/ ProviderError
    \/ ReadTimeoutRaised
    \/ GenerateReturns
    \/ QueryFinish
    \/ QueryReturn

\* The clock advances, the timeout of a read fires when it is due, and the
\* event loop resumes generate when no provider is left; nothing obliges
\* the provider to send a line, to end its response or to answer at all.
\* Steps 2-5 of query() contain no await: once step 1 ends the call runs to
\* its return.
ExpandFairness ==
    /\ WF_vars(Tick)
    /\ WF_vars(ReadTimeoutRaised)
    /\ WF_vars(GenerateReturns)

ExpandSpec == Init /\ [][ExpandNext]_vars /\ ExpandFairness

\* C20: query expansion is bounded by a timeout: a query() with
\* expand_query=true whose collaborator never finishes responding still
\* eventually leaves the wait of step 1 and proceeds to retrieval, from
\* which it returns without waiting again.
C20_ExpansionBounded == (pc = "expanding") ~> (pc = "retrieving")

\* The sparse search result r carries the metadata of corpus position i and
\* the BM25 score of the chunk tokenized at that position.
SparseHitAt(r, i, tokens) ==
    /\ r.chunk_text = metadata[i].chunk_text
    /\ r.chunk_index = metadata[i].chunk_index
    /\ r.document_id = metadata[i].document_id
    /\ r.document_name = metadata[i].document_name
    /\ corpus[i] = Tokenize(r.chunk_text)
    /\ FEq(r.score, FInt(BM25Score(bm25.idf, corpus[i], tokens)))

\* C21: BM25Index.search returns at most top_k entries ordered by BM25 score
\* non-increasing; every returned entry has score > 0 and carries the
\* metadata stored at the position of its tokenized chunk; the result is
\* empty when the corpus is empty or the query tokenizes to no tokens.
C21_SparseSearchResult ==
    "sparse" \in DOMAIN out =>
        /\ Len(out.sparse) <= req.top_k
        /\ \A n \in 1..(Len(out.sparse) - 1) : FLeq(out.sparse[n + 1].score, out.sparse[n].score)
        /\ \A n \in 1..Len(out.sparse) :
              /\ FLess(FZero, out.sparse[n].score)
              /\ \E i \in 1..Len(corpus) :
                    SparseHitAt(out.sparse[n], i, Tokenize(QueryWords(req.query)))
        /\ (corpus = <<>> \/ Tokenize(QueryWords(req.query)) = <<>>) => out.sparse = <<>>

\* A sparse search with top_k = 2 on a corpus of more than two chunks
\* returned two entries with different scores.
C21_Witness ==
    /\ "sparse" \in DOMAIN out
    /\ req.top_k = 2
    /\ Len(corpus) > 2
    /\ Len(out.sparse) = 2
    /\ FLess(out.sparse[2].score, out.sparse[1].score)

\* A sparse search left out a chunk that was among the top_k with a score
\* that is not positive.
C21_WitnessExcluded ==
    /\ "sparse" \in DOMAIN out
    /\ Len(corpus) >= req.top_k
    /\ Len(out.sparse) >= 1
    /\ Len(out.sparse) < req.top_k

\* A blank query was searched on a corpus that is not empty.
C21_WitnessBlank ==
    /\ "sparse" \in DOMAIN out
    /\ corpus # <<>>
    /\ Tokenize(QueryWords(req.query)) = <<>>

\* ------------------------------------------------- I/O errors of the load
\* The process is stopped between two calls and started again; each index
\* is loaded by the first call that uses it, and a read of a file can fail.
\* pc is "stopped" until the dense instance holds an index, "dense_loaded"
\* until the sparse one was loaded too.  The dense index is used first.
DenseFaults == {"none", "read_index", "pickle_load"}

SparseFaults == {"none", "corpus_load", "meta_load"}

\* The methods of VectorStoreService that call _get_index
\* (vector_store.py:154, 186, 220).
FirstUses == {"add_document", "search", "get_stats"}

\* VectorStoreService._get_index when a read fails (vector_store.py:57-74):
\* the handler catches ImportError only.  read_index fails: nothing is
\* assigned; pickle.load fails: self._index is already assigned.
GetIndexFailing(d, fault) ==
    IF fault = "read_index"
    THEN [index |-> <<>>, chunks |-> <<>>, assigned |-> FALSE]
    ELSE [index |-> d.index_faiss.data, chunks |-> <<>>, assigned |-> TRUE]

\* The exception of _get_index reaches the caller of the method: add_document
\* and search have no handler; get_stats catches Exception and returns zeros
\* (vector_store.py:218-228).
CallerSees(use, failed) == failed /\ use # "get_stats"

\* BM25Index._load_index when a read fails (bm25_index.py:39-44): no handler;
\* _rebuild_index is not reached.
LoadIndexFailing(d, fault) ==
    IF fault = "corpus_load"
    THEN [corpus |-> <<>>, metadata |-> <<>>, bm25 |-> NoIndex]
    ELSE [corpus |-> d.bm25_corpus.data, metadata |-> <<>>, bm25 |-> NoIndex]

\* The process ends between two calls.
Stop ==
    /\ pc = "idle"
    /\ EventLoopFree
    /\ disk.index_faiss.exists
    /\ index' = <<>>
    /\ chunks' = <<>>
    /\ corpus' = <<>>
    /\ metadata' = <<>>
    /\ bm25' = NoIndex
    /\ model_loaded' = FALSE
    /\ pc' = "stopped"
    /\ req' = NoRequest
    /\ out' = NoObservation
    /\ UNCHANGED <<dense_adds, sparse_adds, llm, searched, fused, disk, tasks, resp, jobs>>

\* The first call of a method of the dense instance: self._index is None
\* and _get_index loads the files.
DenseFirstUse(use, fault) ==
    /\ pc = "stopped"
    /\ (fault # "none" => disk.index_faiss.exists /\ disk.chunks_pkl.exists)
    /\ \E dense \in {IF fault = "none" THEN _get_index(disk) ELSE GetIndexFailing(disk, fault)} :
          /\ index' = dense.index
          /\ chunks' = dense.chunks
          /\ pc' = IF fault = "none" \/ dense.assigned THEN "dense_loaded" ELSE "stopped"
    /\ out' = [raised |-> CallerSees(use, fault # "none"), io_error |-> fault # "none",
               use |-> use]
    /\ UNCHANGED <<corpus, metadata, bm25, model_loaded, dense_adds, sparse_adds, req, llm,
                   searched, fused, disk, tasks, resp, jobs>>

\* The first BM25Index.search: self._index is None and _load_index reads
\* the files (bm25_index.py:101-102); after a failure the next search
\* loads again.
SparseFirstUse(fault) ==
    /\ pc = "dense_loaded"
    /\ (fault # "none" => disk.bm25_corpus.exists /\ disk.bm25_meta.exists)
    /\ \E sparse \in {IF fault = "none" THEN _load_index(disk) ELSE LoadIndexFailing(disk, fault)} :
          /\ corpus' = sparse.corpus
          /\ metadata' = sparse.metadata
          /\ bm25' = sparse.bm25
    /\ pc' = IF fault = "none" THEN "idle" ELSE "dense_loaded"
    /\ out' = [raised |-> fault # "none", io_error |-> fault # "none", use |-> "search"]
    /\ UNCHANGED <<index, chunks, model_loaded, dense_adds, sparse_adds, req, llm, searched,
                   fused, disk, tasks, resp, jobs>>

FaultNext ==
    \/ StoreNext
    \/ Stop
    \/ \E use \in FirstUses, fault \in DenseFaults : DenseFirstUse(use, fault)
    \/ \E fault \in SparseFaults : SparseFirstUse(fault)

FaultSpec == Init /\ [][FaultNext]_vars

\* C22: an I/O error while saving the index during add_document, or while
\* loading it on first use, is surfaced to the caller as an error:
\* add_document returns no chunk count and the load does not silently
\* continue.
C22_IOErrorSurfaced ==
    ("io_error" \in DOMAIN out /\ out.io_error) =>
        /\ out.raised
        /\ "chunk_count" \notin DOMAIN out

\* C23: _expand_query(query, n) returns at most n alternate phrasings, each
\* non-empty, and pairwise distinct.
C23_ExpansionsDistinct ==
    (pc = "retrieving" /\ req.expand_query) =>
        /\ Len(GeneratedVariants) <= ExpandN
        /\ \A i \in 1..Len(GeneratedVariants) : GeneratedVariants[i] # ""
        /\ \A i, j \in 1..Len(GeneratedVariants) :
              i # j => GeneratedVariants[i] # GeneratedVariants[j]

\* The chunk_index values stored for document d, in insertion order.
DocIndices(meta, d) ==
    LET own == SelectSeq(meta, LAMBDA c : c.document_id = d)
    IN [n \in 1..Len(own) |-> own[n].chunk_index]

\* C24: after any sequence of add_document calls on the dense index, the
\* chunk_index values stored for every document_id are exactly 0, 1, ...,
\* n-1 in insertion order, each once.
C24_ChunkIndicesContiguous ==
    \A i \in 1..Len(chunks) :
        LET ids == DocIndices(chunks, chunks[i].document_id)
        IN ids = [n \in 1..Len(ids) |-> n - 1]

\* ---------------------------------------------------------------- C25
\* Where the retrieval loop met key: the (variant, ranker, rank) triples of
\* the sub-searches of query_engine.py:76-106 that returned it.
Sources(key, queries, fetch_k) ==
    {<<queries[n], "dense", p - 1>> :
        <<n, p>> \in {<<n, p>> \in (1..Len(queries)) \X (1..fetch_k) :
            /\ p <= Len(VectorSearch(queries[n], fetch_k))
            /\ Key(VectorSearch(queries[n], fetch_k)[p]) = key}}
    \cup
    {<<queries[n], "bm25", p - 1>> :
        <<n, p>> \in {<<n, p>> \in (1..Len(queries)) \X (1..fetch_k) :
            /\ p <= Len(BM25Search(queries[n], fetch_k))
            /\ Key(BM25Search(queries[n], fetch_k)[p]) = key}}

\* C25 as stated: in a hybrid call a candidate returned for several variants
\* or by both rankers has a strictly higher fused score than a candidate
\* returned once, for one variant by one ranker, at one of its ranks.
C25_AccumulatesAcrossVariants ==
    (pc = "done" /\ req.use_hybrid) =>
        \A i, j \in 1..Len(fused) :
            LET sa == Sources(Key(fused[i]), CallQueries, CallFetchK)
                sb == Sources(Key(fused[j]), CallQueries, CallFetchK)
            IN (/\ Cardinality({<<s[1], s[2]>> : s \in sa}) > 1
                /\ Cardinality(sb) = 1
                /\ \E s \in sa, t \in sb : s[3] = t[3])
               => FLess(fused[j].score, fused[i].score)

\* C25 amended: the contributions of the two rankers for the original query
\* accumulate, and nothing else does. A candidate that both rankers rank for
\* the original query scores strictly above a candidate that one ranker alone
\* ranks for it at one of the same ranks, and a candidate returned for
\* expanded variants only scores zero.
C25_AccumulatesAcrossRankers ==
    (pc = "done" /\ req.use_hybrid) =>
        \A vs \in {VectorSearch(req.query, CallFetchK)}, bs \in {BM25Search(req.query, CallFetchK)} :
        \A rk \in {[i \in 1..Len(fused) |->
                        <<RankOf(vs, Key(fused[i])), RankOf(bs, Key(fused[i]))>>] \o <<>>} :
        \A i, j \in 1..Len(fused) :
            /\ (/\ rk[i][1] # NoRank /\ rk[i][2] # NoRank
                /\ (rk[j][1] = NoRank) # (rk[j][2] = NoRank)
                /\ {rk[j][1], rk[j][2]} \cap {rk[i][1], rk[i][2]} # {})
               => FLess(fused[j].score, fused[i].score)
            /\ (rk[i][1] = NoRank /\ rk[i][2] = NoRank)
               => FEq(fused[i].score, FZero)

C25_Witness ==
    /\ pc = "done" /\ req.use_hybrid
    /\ Len(CallQueries) > 1
    /\ LET vr(c) == RankOf(VectorSearch(req.query, CallFetchK), Key(c))
           br(c) == RankOf(BM25Search(req.query, CallFetchK), Key(c))
       IN /\ \E i, j \in 1..Len(fused) :
                /\ vr(fused[i]) # NoRank /\ br(fused[i]) # NoRank
                /\ (vr(fused[j]) = NoRank) # (br(fused[j]) = NoRank)
                /\ {vr(fused[j]), br(fused[j])} \cap {vr(fused[i]), br(fused[i])} # {}
          /\ \E i \in 1..Len(fused) :
                /\ vr(fused[i]) = NoRank /\ br(fused[i]) = NoRank
                /\ Sources(Key(fused[i]), CallQueries, CallFetchK) # {}

\* ---------------------------------------------------------------- C26
\* Position of candidate key in the order the retrieval loop first met it.
FirstMet(key) ==
    LET stream == RetrievalStream(CallQueries, CallFetchK, req.use_hybrid)
    IN CHOOSE n \in 1..Len(stream) :
        /\ Key(stream[n]) = key
        /\ \A m2 \in 1..(n - 1) : Key(stream[m2]) # key

\* C26: after the fuse step the candidate list is no longer than
\* fetch_k = 3 * top_k in hybrid mode as in vector-only mode, it is ordered by
\* fused score non-increasing, and candidates of equal score keep the order
\* in which retrieval first met them.
C26_FusedListBounded ==
    pc = "done" =>
        /\ Len(fused) <= CallFetchK
        /\ \A i, j \in 1..Len(fused) :
            i < j => /\ FLeq(fused[j].score, fused[i].score)
                     /\ FEq(fused[i].score, fused[j].score)
                        => FirstMet(Key(fused[i])) < FirstMet(Key(fused[j]))

\* The parts of C26 that do not depend on the hybrid truncation.
C26_Sorted ==
    pc = "done" =>
        \A i, j \in 1..Len(fused) :
            i < j => /\ FLeq(fused[j].score, fused[i].score)
                     /\ FEq(fused[i].score, fused[j].score)
                        => FirstMet(Key(fused[i])) < FirstMet(Key(fused[j]))

C26_VectorBounded == (pc = "done" /\ ~req.use_hybrid) => Len(fused) <= CallFetchK

\* ---------------------------------------------------------------- C27
\* C27: when the reranker raises while scoring, query() raises nothing and
\* returns the first top_k entries of the fused list, in the fused order and
\* with the fused scores, with reranked = false.
C27_PredictErrorSwallowed ==
    (pc = "done" /\ searched.rerank = "predict_error") =>
        /\ ~out.raised
        /\ out.reranked = FALSE
        /\ out.results = Take(fused, req.top_k)

\* predict raised on a hybrid call whose fused list is longer than top_k and
\* carries different scores.
C27_Witness ==
    /\ pc = "done"
    /\ searched.rerank = "predict_error"
    /\ model_loaded
    /\ req.use_hybrid /\ req.use_reranking
    /\ req.top_k = 2
    /\ Len(fused) > req.top_k
    /\ ~FEq(fused[1].score, fused[2].score)
    /\ Len(out.results) = 2

\* ---------------------------------------------------------------- C28
\* No reading of the words ws as a run of source sentences contains a
\* sentence of more than chunk_size words.
NoOversizedSentence(ws, sents, chunk_size) ==
    \A r \in RunsOf(ws, sents) : \A k \in r[1]..r[2] : Len(sents[k]) <= chunk_size

\* C28: with overlap < chunk_size, every chunk returned by chunk_text that
\* contains no sentence longer than chunk_size has at most chunk_size words,
\* chunks that start with carried sentences included.
C28_ChunkWithinBudget ==
    (pc = "chunked" /\ req.overlap < req.chunk_size) =>
        \A n \in 1..Len(out.chunks) :
            NoOversizedSentence(out.chunks[n].text, SourceSentences, req.chunk_size)
                => Len(out.chunks[n].text) <= req.chunk_size

\* The part of C28 that holds: the first chunk, which carries nothing.
C28_FirstChunkWithinBudget ==
    (pc = "chunked" /\ out.chunks # <<>>) =>
        (NoOversizedSentence(out.chunks[1].text, SourceSentences, req.chunk_size)
            => Len(out.chunks[1].text) <= req.chunk_size)

\* ---------------------------------------------------------------- C29
\* The chunks n.. read as runs of source sentences, prev being the run of
\* chunk n - 1: each starts with the sentences carried from the run before
\* and goes on with the source sentence after it, up to the last sentence.
RECURSIVE CoversFrom(_, _, _, _, _)
CoversFrom(cs, n, prev, sents, overlap) ==
    IF n > Len(cs) THEN prev[2] = Len(sents)
    ELSE LET carried == IF n = 1 THEN 0
                        ELSE Len(TrailingRun(SubSeq(sents, prev[1], prev[2]), overlap))
         IN \E r \in RunsOf(cs[n].text, sents) :
                /\ r[1] = prev[2] + 1 - carried
                /\ r[2] > prev[2]
                /\ CoversFrom(cs, n + 1, r, sents, overlap)

\* Every source sentence is in a chunk, in source order within and across
\* chunks, and the chunks without their carried sentences are the source
\* sentence sequence.
LosesNothing(cs, sents, overlap) == CoversFrom(cs, 1, <<1, 0>>, sents, overlap)

\* C29 as stated: chunk_text loses and reorders nothing, an empty text
\* yields no chunk, and a single sentence within chunk_size yields one chunk
\* equal to the input.
C29_LosesNothingEqualInput ==
    pc = "chunked" =>
        /\ LosesNothing(out.chunks, SourceSentences, req.overlap)
        /\ req.text = <<>> => out.chunks = <<>>
        /\ (Len(SourceSentences) = 1 /\ Len(req.text) <= req.chunk_size)
           => /\ Len(out.chunks) = 1
              /\ Join(out.chunks[1].text) = Str(req.text, req.spacing)

\* C29 amended: chunk_text loses and reorders no word; an empty text yields
\* no chunk, and a single sentence within chunk_size yields one chunk that
\* is the input with its words joined by single spaces.
C29_LosesNothingNormalised ==
    pc = "chunked" =>
        /\ LosesNothing(out.chunks, SourceSentences, req.overlap)
        /\ req.text = <<>> => out.chunks = <<>>
        /\ (Len(SourceSentences) = 1 /\ Len(req.text) <= req.chunk_size)
           => /\ Len(out.chunks) = 1
              /\ Join(out.chunks[1].text) = Join(req.text)
              /\ req.spacing = "single" => Join(out.chunks[1].text) = Str(req.text, req.spacing)

\* Three chunks with carried sentences out of a text whose white space is
\* not single spaces.
C29_Witness ==
    /\ pc = "chunked"
    /\ req.spacing = "irregular"
    /\ Len(out.chunks) = 3
    /\ Len(SourceSentences) = 4
    /\ \E n \in 2..Len(out.chunks) :
          \E r \in RunsOf(out.chunks[n - 1].text, SourceSentences) :
              TrailingRun(SubSeq(SourceSentences, r[1], r[2]), req.overlap) # <<>>

\* ========================================================= fine-tune jobs
\* FineTuneService (fine_tune.py:86-189): cancel_job and create_job are
\* synchronous; start_training runs as a task of the event loop
\* (api/fine_tune.py:166-169) and suspends only in the sleep of the loop of
\* _train_simulated, so other calls run before its first step or while it
\* sleeps.
MaxJobs == 2

MaxSteps == 2

\* How the training of a job runs: simulated (no GPU, or Unsloth/TRL not
\* installed), or real, which has no suspension point and returns or raises.
TrainingModes == {"simulated", "real", "real_raises"}

\* TrainingJob (fine_tune.py:62-74) as create_job leaves it.  metrics is
\* len(metrics_history), total_steps the loop bound of _train_simulated, at
\* the position of the start_training task of the job.
NewJob == [status |-> "pending", metrics |-> 0, total_steps |-> 0, at |-> "created"]

\* FineTuneService.create_job (fine_tune.py:107-114), followed by the
\* create_task of the endpoint.
create_job ==
    /\ pc = "idle"
    /\ Len(jobs) < MaxJobs
    /\ jobs' = Append(jobs, NewJob)
    /\ UNCHANGED <<index, chunks, corpus, metadata, bm25, model_loaded, dense_adds,
                   sparse_adds, pc, req, llm, searched, fused, out, disk, tasks, resp>>

\* The end of start_training after the training returned
\* (fine_tune.py:172-182).
TrainingReturned(job) == [job EXCEPT !.status = "completed", !.at = "returned"]

\* The handler of start_training (fine_tune.py:184-189).
TrainingRaised(job) == [job EXCEPT !.status = "failed", !.at = "raised"]

\* One pass of the loop of _train_simulated from its top to the sleep
\* (fine_tune.py:205-234), or out of the loop and back into start_training.
\* The log line after the loop reads metrics_history[-1] (fine_tune.py:236).
LoopPass(job) ==
    IF job.metrics < job.total_steps
    THEN IF job.status = "cancelled" THEN TrainingReturned(job)
         ELSE [job EXCEPT !.metrics = @ + 1, !.at = "sleeping"]
    ELSE IF job.metrics = 0 THEN TrainingRaised(job)
    ELSE TrainingReturned(job)

\* The first run of the task start_training(job_id, num_samples)
\* (fine_tune.py:150-170): up to the first sleep, or to its end.
start_training(id, total, mode) ==
    /\ pc = "idle"
    /\ id \in 1..Len(jobs)
    /\ jobs[id].at = "created"
    /\ jobs' = [jobs EXCEPT ![id] =
          IF jobs[id].status # "pending" THEN [@ EXCEPT !.at = "raised"]
          ELSE IF mode = "real" THEN TrainingReturned([@ EXCEPT !.status = "running"])
          ELSE IF mode = "real_raises" THEN TrainingRaised([@ EXCEPT !.status = "running"])
          ELSE LoopPass([@ EXCEPT !.status = "running", !.total_steps = total])]
    /\ UNCHANGED <<index, chunks, corpus, metadata, bm25, model_loaded, dense_adds,
                   sparse_adds, pc, req, llm, searched, fused, out, disk, tasks, resp>>

\* asyncio.sleep returns in _train_simulated (fine_tune.py:234): the task
\* of job id runs to its next sleep or to its end.
_train_simulated(id) ==
    /\ pc = "idle"
    /\ id \in 1..Len(jobs)
    /\ jobs[id].at = "sleeping"
    /\ jobs' = [jobs EXCEPT ![id] = LoopPass(@)]
    /\ UNCHANGED <<index, chunks, corpus, metadata, bm25, model_loaded, dense_adds,
                   sparse_adds, pc, req, llm, searched, fused, out, disk, tasks, resp>>

\* FineTuneService.cancel_job (fine_tune.py:140-146); out is what it
\* returned and the status it found (None for an unknown id).
cancel_job(id) ==
    /\ pc = "idle"
    /\ LET was == IF id \in 1..Len(jobs) THEN jobs[id].status ELSE None
       IN /\ jobs' = IF was = "running"
                     THEN [jobs EXCEPT ![id].status = "cancelled"]
                     ELSE jobs
          /\ out' = [raised |-> FALSE, op |-> "cancel_job", job_id |-> id,
                     was |-> was, result |-> (was = "running")]
    /\ UNCHANGED <<index, chunks, corpus, metadata, bm25, model_loaded, dense_adds,
                   sparse_adds, pc, req, llm, searched, fused, disk, tasks, resp>>

JobNext ==
    \/ create_job
    \/ \E id \in 1..MaxJobs, total \in 0..MaxSteps, mode \in TrainingModes :
          start_training(id, total, mode)
    \/ \E id \in 1..MaxJobs : _train_simulated(id)
    \/ \E id \in 1..(MaxJobs + 1) : cancel_job(id)

JobSpec == Init /\ [][JobNext]_vars

\* C30: cancel_job returns true only for a RUNNING job and false for a
\* PENDING one, and CANCELLED is terminal: a job that cancel_job set to
\* CANCELLED while its start_training is suspended in the training loop
\* never becomes COMPLETED or FAILED.
C30_CancelLifecycle ==
    /\ [](("op" \in DOMAIN out /\ out.op = "cancel_job") =>
            /\ out.result => out.was = "running"
            /\ out.was = "pending" => ~out.result)
    /\ [][\A id \in 1..Len(jobs) :
            jobs[id].status = "cancelled" => jobs'[id].status \notin {"completed", "failed"}]_vars

\* The part of C30 about what cancel_job returns.
C30_CancelReturn ==
    ("op" \in DOMAIN out /\ out.op = "cancel_job") =>
        /\ out.result = (out.was = "running")
        /\ out.result => jobs[out.job_id].status # "running"

\* cancel_job returned false for a pending job, and later true for a job
\* whose task sleeps in the training loop.
C30_WitnessReturn ==
    /\ "op" \in DOMAIN out /\ out.op = "cancel_job" /\ out.result
    /\ jobs[out.job_id].status = "cancelled" /\ jobs[out.job_id].at = "sleeping"
    /\ \E id \in 1..Len(jobs) : jobs[id].status = "pending"
====
